---- MODULE Spec2Model ----
(***************************************************************************)
(* Viewer Bridge + Render Host of the three.js font viewer.                *)
(*                                                                         *)
(*   Bridge  : docs/js/viewer-bridge.js (parent window)                    *)
(*   Host    : editor/viewer/viewer-core.js (inside the iframe)            *)
(*                                                                         *)
(* Numbers are scaled by 10 (0.7 is 7, 2.5 is 25); a vector is a triple    *)
(* <<x, y, z>>.  A JavaScript reference that may be null is a sequence of  *)
(* length 0 (null) or 1 (the object).                                      *)
(***************************************************************************)
EXTENDS Integers, Sequences, FiniteSets, TLC

VARIABLES
    isViewerReady,           \* bridge: let isViewerReady
    completeStateToRestore,  \* bridge: let completeStateToRestore ({} is None)
    pendingReloadUrl,        \* bridge: let pendingReloadUrl (null is None)
    srcdoc,                  \* the document installed in the iframe
    hostUp,                  \* the installed document has run initViewer
    host,                    \* the Render Host's module state
    toHost,                  \* messages posted to iframe.contentWindow, undelivered
    toBridge,                \* events posted to window.parent, undelivered
    appFont,                 \* orchestrator: the data of the current font (null before a load)
    fontDataHasChanged,      \* orchestrator: AppState.fontDataHasChanged
    viewerState,             \* orchestrator: AppState.viewerState
    calls,                   \* Orchestrator calls made so far (budget)
    curReadySeen,            \* history: the Bridge handled the 'ready' of the Host now installed
    byReload,                \* history: the installed document was installed by the reload protocol
    readyEffects,            \* history: effects of the last 'ready' handling, in order
    lastCmd,                 \* history: the last step the Host took
    hist,                    \* history: the commands a Host under test has handled
    base,                    \* history: the state a round trip started from
    assetUrl,                \* versioner: the asset URL handed to the generator
    iframeHtml,              \* versioner: the bootstrap document generated from it
    rangeQuery,              \* versioner: <<versionToCheck, rangeStart, rangeEnd>>
    inRange,                 \* versioner: what _isVersionInRange returned for it
    versionToken,            \* versioner: a version token handed to _normalizeVersion
    normalized,              \* versioner: the results of normalizing it again and again
    THREE,                   \* loader: the library the document loaded (REVISION, addon)
    loaderConfig             \* loader: the config each loader passes to initViewer

vars == <<isViewerReady, completeStateToRestore, pendingReloadUrl, srcdoc, hostUp,
          host, toHost, toBridge, appFont, calls, curReadySeen, byReload, readyEffects,
          lastCmd, hist, base, assetUrl, iframeHtml, rangeQuery, inRange,
          versionToken, normalized, THREE, loaderConfig, fontDataHasChanged, viewerState>>

bridgeVars == <<isViewerReady, completeStateToRestore, pendingReloadUrl>>
readyHist == <<curReadySeen, byReload, readyEffects>>
versionerVars == <<assetUrl, iframeHtml, rangeQuery, inRange, versionToken, normalized,
                   THREE, loaderConfig>>
\* What the Bridge, the Orchestrator and a Host in use leave alone
testHist == <<hist, base, versionerVars, fontDataHasChanged, viewerState>>

---------------------------------------------------------------------------
(* Values *)

None == <<>>
Some(x) == <<x>>
The(o) == o[1]

Zero3 == <<0, 0, 0>>

Sgn(n) == IF n > 0 THEN 1 ELSE IF n < 0 THEN -1 ELSE 0

\* camera.lookAt(target) from position p: the Euler angles, coarsened to the sign of
\* the pitch and of the yaw (an angle of about 0.3 rad is 3).
LookAt(p, t) == <<3 * Sgn(t[2] - p[2]), 3 * Sgn(p[1] - t[1]), 0>>

NoFont == "null"
Blank == " "          \* a text without outlines: its geometry has an empty box
BadFont == "bad"      \* font JSON the geometry builder throws on

\* const materialMap, in key order
MaterialNames == <<"Normal", "Basic", "Lambert", "Phong", "Standard", "Physical",
                   "Toon", "Wireframe">>

materialMap(name) ==
    CASE name = "Normal"    -> "MeshNormalMaterial"
      [] name = "Basic"     -> "MeshBasicMaterial"
      [] name = "Lambert"   -> "MeshLambertMaterial"
      [] name = "Phong"     -> "MeshPhongMaterial"
      [] name = "Standard"  -> "MeshStandardMaterial"
      [] name = "Physical"  -> "MeshPhysicalMaterial"
      [] name = "Toon"      -> "MeshToonMaterial"
      [] name = "Wireframe" -> "MeshBasicMaterial"
      [] OTHER              -> "undefined"

\* Object.keys(materialMap).find(key => materialMap[key] === ctor) || 'Phong'
RECURSIVE FindKeyFrom(_, _)
FindKeyFrom(i, ctor) ==
    IF i > Len(MaterialNames) THEN "Phong"
    ELSE IF materialMap(MaterialNames[i]) = ctor THEN MaterialNames[i]
    ELSE FindKeyFrom(i + 1, ctor)

FindMaterialKey(ctor) == FindKeyFrom(1, ctor)

\* Remove one occurrence of x from the sequence s (Object3D.remove of one child).
RECURSIVE RemoveOne(_, _)
RemoveOne(s, x) ==
    IF s = <<>> THEN <<>>
    ELSE IF Head(s) = x THEN Tail(s)
    ELSE <<Head(s)>> \o RemoveOne(Tail(s), x)

Count(s, x) == Cardinality({i \in 1..Len(s) : s[i] = x})

---------------------------------------------------------------------------
(* Render Host: module state after initViewer (initScene, then the listener) *)

\* The geometries and materials made with new THREE.<kind>(...): for each, whether one
\* has been created and not disposed. meshGeometry and meshMaterial are those given to
\* the TextMesh, edgesGeometry and lineMaterial those given to the BoundingBoxHelper,
\* boxGeometry the argument of EdgesGeometry, textGeometry a TextGeometry that was
\* given to no mesh.
NoResource ==
    [meshGeometry |-> FALSE, meshMaterial |-> FALSE, edgesGeometry |-> FALSE,
     lineMaterial |-> FALSE, boxGeometry |-> FALSE, textGeometry |-> FALSE]

\* The steps of initScene, in order: what each builds or starts
InitSteps == <<"Scene", "Pivot", "Camera", "Renderer", "Lights", "GridHelper",
               "MouseControls", "RenderLoop">>

\* What initScene has built when its step number k throws (all of it when none does)
BuiltBefore(k) == {InitSteps[i] : i \in 1..(k - 1)}

FreshHost == [
    built |-> BuiltBefore(Len(InitSteps) + 1),   \* scene, pivotGroup, camera, renderer, ...
    panEnabled |-> FALSE, zoomEnabled |-> TRUE, is3D |-> TRUE, gridVisible |-> TRUE,
    rotationEnabled |-> TRUE, rotateObjectEnabled |-> TRUE, moveObjectEnabled |-> FALSE,
    rotateCameraEnabled |-> FALSE, isBoundingBoxVisible |-> FALSE,
    currentMaterialConstructor |-> "MeshPhongMaterial",
    isWireframe |-> FALSE, currentColor |-> "#0077fe", currentAlpha |-> 10,
    currentTheme |-> "dark",
    savedViewState |-> None, pendingStateRestore |-> None,
    currentFontData |-> NoFont, currentText |-> "", isFirstRender |-> TRUE,
    cameraPos |-> <<0, 7, 25>>, cameraRot |-> LookAt(<<0, 7, 25>>, Zero3),
    pivotPos |-> Zero3, pivotRot |-> Zero3,
    textMesh |-> None, boundingBoxHelper |-> None,
    pivotChildren |-> <<>>,         \* pivotGroup.children, by kind
    undisposed |-> NoResource,      \* geometries and materials created and not disposed
    gridHelperVisible |-> TRUE,     \* gridHelper.visible
    background |-> "default",       \* scene.background
    frameCallbacks |-> 0,           \* requestAnimationFrame(frameObject) not yet run
    out |-> <<>>,                   \* events posted to window.parent by the running handler
    threw |-> FALSE,                \* the running handler has caught an exception
    isMouseDown |-> FALSE, lastMouseX |-> 0, lastMouseY |-> 0   \* setupMouseControls
]

reportErrorToParent(h) ==
    [h EXCEPT !.out = Append(@, [command |-> "reportError"])]

\* The library call that throws while a command is handled, chosen by the environment
\* and carried with the command; "none" when every call returns.
FaultOf(args) == IF "fault" \in DOMAIN args THEN args.fault ELSE "none"

\* A catch that reports nothing
CaughtSilently(h) == [h EXCEPT !.threw = TRUE]

\* catch (error) { ...; reportErrorToParent(error); } of updateViewer and of the listener
Caught(h) == [reportErrorToParent(h) EXCEPT !.threw = TRUE]

\* The geometry of a text: its bounding box height (TextGeometry of size 1), by font.
GeomHeight(g) == IF g.text = Blank THEN 0 ELSE IF g.font = "F2" THEN 8 ELSE 6

\* center.y - geometry.boundingBox.min.y
BaselineY(g) == GeomHeight(g) \div 2

\* distance * 1.5 of frameObject: flat and extruded text have different boxes
FrameDistance(g) == IF g.is3D THEN 16 ELSE 15

ThemeLineColor(theme) == IF theme = "dark" THEN "0x666666" ELSE "0x444444"

updateBoundingBoxHelper(h, mesh) ==
    LET h1 == IF h.boundingBoxHelper # None
              THEN [h EXCEPT !.pivotChildren = RemoveOne(@, "BoundingBoxHelper"),
                             !.boundingBoxHelper = None,
                             !.undisposed.edgesGeometry = FALSE,
                             !.undisposed.lineMaterial = FALSE]
              ELSE h
    IN  IF mesh = None \/ ~h1.isBoundingBoxVisible THEN h1
        ELSE [h1 EXCEPT
                !.undisposed.boxGeometry = TRUE,
                !.undisposed.edgesGeometry = TRUE,
                !.undisposed.lineMaterial = TRUE,
                !.boundingBoxHelper = Some([height |-> GeomHeight(The(mesh).geometry),
                                            color |-> ThemeLineColor(h1.currentTheme)]),
                !.pivotChildren = Append(@, "BoundingBoxHelper")]

\* A framing that does not look at the size of the box
frameObjectAnySize(h) ==
    IF h.textMesh = None THEN h
    ELSE LET p == h.pivotPos
             c == <<p[1], p[2], p[3] + FrameDistance(The(h.textMesh).geometry)>>
         IN  [h EXCEPT !.cameraPos = c, !.cameraRot = LookAt(c, p)]

frameObject(h) ==
    IF h.textMesh = None THEN h
    ELSE IF GeomHeight(The(h.textMesh).geometry) = 0 THEN h  \* size.x > 0 || size.y > 0
    ELSE LET p == h.pivotPos
             c == <<p[1], p[2], p[3] + FrameDistance(The(h.textMesh).geometry)>>
         IN  [h EXCEPT !.cameraPos = c, !.cameraRot = LookAt(c, p)]

NewMaterial(h) ==
    [ctor |-> h.currentMaterialConstructor, wireframe |-> h.isWireframe,
     color |-> h.currentColor, opacity |-> h.currentAlpha]

\* A removal that forgets the Pivot's child list
RemoveTextMeshKeepsChild(h) ==
    IF h.textMesh # None
    THEN [h EXCEPT !.textMesh = None, !.undisposed.meshGeometry = FALSE,
                   !.undisposed.meshMaterial = FALSE]
    ELSE h

\* if (textMesh) { pivotGroup.remove(textMesh); ...dispose...; textMesh = null; }
RemoveTextMesh(h) ==
    IF h.textMesh # None
    THEN [h EXCEPT !.pivotChildren = RemoveOne(@, "TextMesh"), !.textMesh = None,
                   !.undisposed.meshGeometry = FALSE, !.undisposed.meshMaterial = FALSE]
    ELSE h

\* A placement that takes the baseline only on a reset
PlaceMeshOnResetOnly(h, g, args) ==
    LET reset == args.shouldResetPosition
    IN  IF reset
        THEN [h EXCEPT !.pivotRot = Zero3, !.isFirstRender = FALSE,
                       !.pivotPos = <<0, BaselineY(g), 0>>]
        ELSE h

\* The placement part of updateViewer, once the mesh is attached.
PlaceMesh(h, g, args) ==
    LET reset  == args.shouldResetPosition
        userX  == IF reset THEN 0 ELSE h.pivotPos[1]
        userY  == IF reset THEN 0 ELSE h.pivotPos[2]
        userZ  == IF reset THEN 0 ELSE h.pivotPos[3]
        h1     == IF reset THEN [h EXCEPT !.pivotRot = Zero3] ELSE h
        first  == reset \/ h.isFirstRender
        finalY == IF first THEN BaselineY(g) ELSE userY
    IN  [h1 EXCEPT !.isFirstRender = IF first THEN FALSE ELSE @,
                   !.pivotPos = <<userX, finalY, userZ>>]

\* A rejection that comes after the old mesh and helper were removed
SyncErrorAfterRemoval(h) ==
    reportErrorToParent(updateBoundingBoxHelper(RemoveTextMesh(h), None))

\* else { reportErrorToParent(new Error('Sync Error: ...')); return; }
SyncError(h) == reportErrorToParent(h)

updateViewer(h, args) ==
    IF args.fontHasChanged /\ args.fontData = NoFont
    THEN SyncError(h)
    ELSE
    LET h1 == IF args.fontHasChanged THEN [h EXCEPT !.currentFontData = args.fontData]
              ELSE h
        h2 == [h1 EXCEPT !.currentText = args.text]
        h3 == updateBoundingBoxHelper(RemoveTextMesh(h2), None)
    IN  IF args.text = "" \/ h3.currentFontData = NoFont THEN h3
        ELSE
        LET h4 == [h3 EXCEPT !.is3D = args.is3D]
        IN  IF \/ h4.currentFontData = BadFont                \* fontParser throws
               \/ FaultOf(args) = "geometry"                  \* TextGeometry throws
            THEN Caught(h4)
            ELSE IF FaultOf(args) = "material"                \* the material throws
            THEN Caught([h4 EXCEPT !.undisposed.textGeometry = TRUE])
            ELSE
            LET g  == [text |-> args.text, font |-> h4.currentFontData,
                       is3D |-> args.is3D]
                h5 == [h4 EXCEPT !.textMesh = Some([geometry |-> g,
                                                    material |-> NewMaterial(h4)]),
                                 !.undisposed.meshGeometry = TRUE,
                                 !.undisposed.meshMaterial = TRUE,
                                 !.pivotChildren = Append(@, "TextMesh")]
                h5r == IF args.shouldResetPosition THEN [h5 EXCEPT !.pivotRot = Zero3]
                       ELSE h5
                h6 == PlaceMesh(h5, g, args)
                h7 == IF args.shouldFrame THEN frameObject(h6) ELSE h6
            IN  IF /\ FaultOf(args) = "placement"             \* boundingBox.getCenter
                   /\ (args.shouldResetPosition \/ h5.isFirstRender)
                THEN Caught(h5r)
                ELSE IF FaultOf(args) = "framing" /\ args.shouldFrame
                THEN Caught(h6)                                \* Box3.setFromObject, getSize
                ELSE IF FaultOf(args) = "bbox" /\ h7.isBoundingBoxVisible
                THEN Caught(h7)                                \* BoxGeometry, EdgesGeometry
                ELSE updateBoundingBoxHelper(h7, h7.textMesh)

setColor(h, color, alpha) ==
    LET h1 == [h EXCEPT !.currentColor = color, !.currentAlpha = alpha]
    IN  IF h1.textMesh = None THEN h1
        ELSE [h1 EXCEPT !.textMesh = Some([The(@) EXCEPT !.material.color = color,
                                                         !.material.opacity = alpha])]

setMaterial(h, materialName) ==
    LET ctor == IF materialMap(materialName) = "undefined" THEN "MeshPhongMaterial"
                ELSE materialMap(materialName)
        h1 == [h EXCEPT !.currentMaterialConstructor = ctor,
                        !.isWireframe = (materialName = "Wireframe")]
    IN  IF h1.textMesh = None THEN h1
        ELSE [h1 EXCEPT !.textMesh = Some([The(@) EXCEPT !.material = NewMaterial(h1)]),
                        \* the new material, then oldMaterial.dispose()
                        !.undisposed.meshMaterial = TRUE]

resetView(h) ==
    [h EXCEPT !.cameraPos = <<0, 7, 25>>, !.cameraRot = LookAt(<<0, 7, 25>>, Zero3),
              !.pivotRot = Zero3, !.pivotPos = Zero3]

toggleRotation(h, enabled) == [h EXCEPT !.rotationEnabled = enabled]

toggleGrid(h, visible) == [h EXCEPT !.gridVisible = visible, !.gridHelperVisible = visible]

updateTheme(h, theme) ==
    LET h1 == [h EXCEPT !.currentTheme = theme,
                        !.background = IF theme = "dark" THEN "0x1a1a1a" ELSE "0xf8f9fa"]
    IN  IF h1.boundingBoxHelper = None THEN h1
        ELSE [h1 EXCEPT !.boundingBoxHelper =
                            Some([The(@) EXCEPT !.color = ThemeLineColor(theme)])]

\* A toggle that only records the flag
toggleBoundingBoxFlagOnly(h, visible) ==
    [h EXCEPT !.isBoundingBoxVisible = visible]

toggleBoundingBox(h, visible) ==
    LET h1 == [h EXCEPT !.isBoundingBoxVisible = visible]
    IN  updateBoundingBoxHelper(h1, IF visible THEN h1.textMesh ELSE None)

\* Mouse controls, in steps of one pixel of drag: right is the camera's X axis, up its Y.
onMouseDown(h, e) ==
    [h EXCEPT !.isMouseDown = TRUE, !.lastMouseX = e.clientX, !.lastMouseY = e.clientY]

\* A drag handler that looks at the pan flag first
onMouseMovePanFirst(h, e) ==
    IF ~h.isMouseDown THEN h
    ELSE LET deltaX == e.clientX - h.lastMouseX
             deltaY == e.clientY - h.lastMouseY
         IN  [(IF h.panEnabled
               THEN [h EXCEPT !.cameraPos = <<@[1] - deltaX, @[2] + deltaY, @[3]>>]
               ELSE IF h.rotateObjectEnabled
               THEN [h EXCEPT !.pivotRot = <<@[1] + deltaY, @[2] + deltaX, @[3]>>]
               ELSE h)
              EXCEPT !.lastMouseX = e.clientX, !.lastMouseY = e.clientY]

onMouseMove(h, e) ==
    IF ~h.isMouseDown THEN h
    ELSE LET deltaX == e.clientX - h.lastMouseX
             deltaY == e.clientY - h.lastMouseY
             c      == <<h.cameraPos[1] - deltaX, h.cameraPos[2] + deltaY, h.cameraPos[3]>>
             h1 == IF h.rotateObjectEnabled
                   THEN [h EXCEPT !.pivotRot = <<@[1] + deltaY, @[2] + deltaX, @[3]>>]
                   ELSE IF h.panEnabled
                   THEN [h EXCEPT !.cameraPos = <<@[1] - deltaX, @[2] + deltaY, @[3]>>]
                   ELSE IF h.moveObjectEnabled
                   THEN [h EXCEPT !.pivotPos = <<@[1] + deltaX, @[2] - deltaY, @[3]>>]
                   ELSE IF h.rotateCameraEnabled
                   THEN [h EXCEPT !.cameraPos = c, !.cameraRot = LookAt(c, h.pivotPos)]
                   ELSE h
         IN  [h1 EXCEPT !.lastMouseX = e.clientX, !.lastMouseY = e.clientY]

onMouseUp(h) == [h EXCEPT !.isMouseDown = FALSE]

\* camera.getWorldDirection of a camera that is not rotated (cameraRot = Zero3), as
\* frameObject leaves it on the Pivot's Z axis: it looks along -Z.
WorldDirection(h) == <<0, 0, -1>>

\* The 0.2 of onWheel
MinDistance == 2

\* distanceTo, squared
DistanceSq(a, b) ==
    (a[1] - b[1]) * (a[1] - b[1]) + (a[2] - b[2]) * (a[2] - b[2])
    + (a[3] - b[3]) * (a[3] - b[3])

\* addScaledVector
AddScaled(p, d, k) == <<p[1] + d[1] * k, p[2] + d[2] * k, p[3] + d[3] * k>>

\* A wheel handler without the minimum distance
onWheelUnclamped(h, e) ==
    IF ~h.zoomEnabled THEN h
    ELSE [h EXCEPT !.cameraPos = AddScaled(@, WorldDirection(h), -(e.deltaY \div 50))]

\* -e.deltaY * 0.002 is -deltaY / 50 in tenths
onWheel(h, e) ==
    IF ~h.zoomEnabled THEN h
    ELSE LET direction == WorldDirection(h)
             c == AddScaled(h.cameraPos, direction, -(e.deltaY \div 50))
         IN  IF DistanceSq(c, h.pivotPos) < MinDistance * MinDistance
             THEN [h EXCEPT !.cameraPos = AddScaled(h.pivotPos, direction, -MinDistance)]
             ELSE [h EXCEPT !.cameraPos = c]

setMouseState(h, args) ==
    [h EXCEPT !.panEnabled = args.pan, !.zoomEnabled = args.zoom,
              !.rotateObjectEnabled = args.rotateObject,
              !.moveObjectEnabled = args.moveObject,
              !.rotateCameraEnabled = args.rotateCamera]

saveCameraAndPivot(h, payload) ==
    [h EXCEPT !.out = Append(@,
        [command |-> "viewerStateResponse",
         state |-> [cameraState |-> [position |-> h.cameraPos, rotation |-> h.cameraRot],
                    pivotState |-> [position |-> h.pivotPos, rotation |-> h.pivotRot]],
         payload |-> payload])]

applyRestoredState(h, state) ==
    LET h1 == setColor(h, state.currentColor, state.currentAlpha)
        h2 == setMaterial(h1, state.currentMaterialName)
        h3 == toggleGrid(h2, state.gridVisible)
        h4 == toggleRotation(h3, state.rotationEnabled)
        h5 == setMouseState(h4, [pan |-> state.panEnabled, zoom |-> state.zoomEnabled,
                                 rotateObject |-> state.rotateObjectEnabled,
                                 moveObject |-> state.moveObjectEnabled,
                                 rotateCamera |-> state.rotateCameraEnabled])
        h6 == IF state.cameraState # None
              THEN [h5 EXCEPT !.cameraPos = The(state.cameraState).position,
                              !.cameraRot = The(state.cameraState).rotation]
              ELSE h5
        h7 == IF state.pivotState # None
              THEN [h6 EXCEPT !.pivotPos = The(state.pivotState).position,
                              !.pivotRot = The(state.pivotState).rotation]
              ELSE h6
    IN  IF state.text # ""
        THEN [h7 EXCEPT !.pendingStateRestore = Some(state),
                        !.out = Append(@, [command |-> "requestFontDataForRestore"])]
        ELSE h7

\* A restore that renders and keeps the state pending
handleFontDataForRestoreKeepsPending(h, args) ==
    IF h.pendingStateRestore # None
    THEN LET p == The(h.pendingStateRestore)
         IN  updateViewer(h, [fontData |-> args.fontData, text |-> p.text,
                              is3D |-> p.is3D, shouldFrame |-> FALSE,
                              shouldResetPosition |-> FALSE, fontHasChanged |-> TRUE])
    ELSE h

handleFontDataForRestore(h, args) ==
    IF h.pendingStateRestore # None
    THEN LET p  == The(h.pendingStateRestore)
             h1 == updateViewer(h, [fontData |-> args.fontData, text |-> p.text,
                                    is3D |-> p.is3D, shouldFrame |-> FALSE,
                                    shouldResetPosition |-> FALSE,
                                    fontHasChanged |-> TRUE])
         IN  [h1 EXCEPT !.pendingStateRestore = None]
    ELSE h

SnapshotOf(h) ==
    [cameraPos |-> h.cameraPos, cameraRot |-> h.cameraRot, pivotPos |-> h.pivotPos,
     pivotRot |-> h.pivotRot, rotationEnabled |-> h.rotationEnabled,
     panEnabled |-> h.panEnabled, zoomEnabled |-> h.zoomEnabled,
     rotateCameraEnabled |-> h.rotateCameraEnabled, gridVisible |-> h.gridVisible,
     is3D |-> h.is3D, rotateObjectEnabled |-> h.rotateObjectEnabled,
     moveObjectEnabled |-> h.moveObjectEnabled,
     currentMaterialConstructor |-> h.currentMaterialConstructor]

WireframeOn(h) ==
    LET h1 == [h EXCEPT !.savedViewState = Some(SnapshotOf(h))]
        h2 == updateViewer(h1, [fontData |-> NoFont, fontHasChanged |-> FALSE,
                                text |-> h1.currentText, is3D |-> FALSE,
                                shouldFrame |-> FALSE, shouldResetPosition |-> TRUE])
        h3 == [h2 EXCEPT !.rotationEnabled = FALSE, !.panEnabled = TRUE,
                         !.zoomEnabled = TRUE, !.rotateCameraEnabled = FALSE,
                         !.rotateObjectEnabled = FALSE, !.moveObjectEnabled = FALSE]
        h4 == setMaterial(toggleGrid(h3, FALSE), "Wireframe")
    IN  [h4 EXCEPT !.frameCallbacks = @ + 1]

WireframeOff(h) ==
    LET s  == The(h.savedViewState)
        h1 == [h EXCEPT !.is3D = s.is3D,
                        !.currentMaterialConstructor = s.currentMaterialConstructor]
        h2 == updateViewer(h1, [fontData |-> NoFont, fontHasChanged |-> FALSE,
                                text |-> h1.currentText, is3D |-> s.is3D,
                                shouldFrame |-> FALSE, shouldResetPosition |-> FALSE])
        h3 == setMaterial(h2, FindMaterialKey(h2.currentMaterialConstructor))
        h4 == [h3 EXCEPT !.cameraPos = s.cameraPos, !.cameraRot = s.cameraRot,
                         !.pivotPos = s.pivotPos, !.pivotRot = s.pivotRot,
                         !.rotationEnabled = s.rotationEnabled,
                         !.panEnabled = s.panEnabled, !.zoomEnabled = s.zoomEnabled,
                         !.rotateCameraEnabled = s.rotateCameraEnabled]
        h5 == toggleGrid(h4, s.gridVisible)
    IN  [h5 EXCEPT !.rotateObjectEnabled = s.rotateObjectEnabled,
                   !.moveObjectEnabled = s.moveObjectEnabled,
                   !.savedViewState = None]

setWireframeMode(h, active) ==
    IF active THEN WireframeOn(h)
    ELSE IF h.savedViewState # None THEN WireframeOff(h)
    ELSE h

\* setWireframeMode(true) when the material constructor throws in setMaterial:
\* catch (error) { console.error(...); resetView(); }, console.error being intercepted
WireframeOnRaises(h) ==
    LET h1 == [h EXCEPT !.savedViewState = Some(SnapshotOf(h))]
        h2 == updateViewer(h1, [fontData |-> NoFont, fontHasChanged |-> FALSE,
                                text |-> h1.currentText, is3D |-> FALSE,
                                shouldFrame |-> FALSE, shouldResetPosition |-> TRUE])
        h3 == [h2 EXCEPT !.rotationEnabled = FALSE, !.panEnabled = TRUE,
                         !.zoomEnabled = TRUE, !.rotateCameraEnabled = FALSE,
                         !.rotateObjectEnabled = FALSE, !.moveObjectEnabled = FALSE]
        h4 == [toggleGrid(h3, FALSE) EXCEPT
                  !.currentMaterialConstructor = materialMap("Wireframe"),
                  !.isWireframe = TRUE]
    IN  IF h4.textMesh = None THEN WireframeOn(h) ELSE resetView(Caught(h4))

\* The state in which the handler of m lets an exception escape to the listener,
\* None if it lets none escape.
Raised(h, m) ==
    IF m.command = "setMaterial" /\ FaultOf(m.args) = "material" /\ h.textMesh # None
    THEN Some([h EXCEPT
                 !.currentMaterialConstructor =
                     IF materialMap(m.args.material) = "undefined"
                     THEN "MeshPhongMaterial" ELSE materialMap(m.args.material),
                 !.isWireframe = (m.args.material = "Wireframe")])
    ELSE IF /\ m.command = "toggleBoundingBox" /\ FaultOf(m.args) = "bbox"
            /\ m.args.visible /\ h.textMesh # None
    THEN Some(updateBoundingBoxHelper([h EXCEPT !.isBoundingBoxVisible = TRUE], None))
    ELSE None

\* The switch of the Host's message listener, inside its try.
HostSwitch(h, m) ==
    CASE m.command = "update"             -> updateViewer(h, m.args)
      [] m.command = "setColor"           -> setColor(h, m.args.color, m.args.alpha)
      [] m.command = "setMaterial"        -> setMaterial(h, m.args.material)
      [] m.command = "toggleRotation"     -> toggleRotation(h, m.args.enabled)
      [] m.command = "toggleGrid"         -> toggleGrid(h, m.args.visible)
      [] m.command = "toggleBoundingBox"  -> toggleBoundingBox(h, m.args.visible)
      [] m.command = "resetView"          -> resetView(h)
      [] m.command = "updateTheme"        -> updateTheme(h, m.args.theme)
      [] m.command = "setMouseState"      -> setMouseState(h, m.args)
      [] m.command = "setWireframe"       ->
            IF m.args.active /\ FaultOf(m.args) = "material"
            THEN WireframeOnRaises(h)
            ELSE setWireframeMode(h, m.args.active)
      [] m.command = "restoreState"       -> applyRestoredState(h, m.args)
      [] m.command = "requestViewerState" -> saveCameraAndPivot(h, m.args)
      [] m.command = "fontDataForRestore" -> handleFontDataForRestore(h, m.args)
      [] OTHER                            -> h

\* The Host's message listener: try { switch } catch (error) { reportErrorToParent }
HostDispatch(h, m) ==
    IF Raised(h, m) # None THEN Caught(The(Raised(h, m)))
    ELSE HostSwitch(h, m)

\* The Host once the handler has returned
Settled(h) == [h EXCEPT !.out = <<>>, !.threw = FALSE]

---------------------------------------------------------------------------
(* Bounds *)

MaxCalls == 3        \* Orchestrator calls in one run
MaxSpin == 1         \* animation frames that rotate the Pivot in one run
MaxFrameCallbacks == 2   \* frameObject callbacks scheduled and not yet run
MaxHostCmds == 3         \* commands a Host under test handles in one run
MaxActivations == 2      \* setWireframe(true) commands in one run of the wireframe mode
MaxMouseMoves == 2       \* mousemove events in one run of the mouse controls
MaxWheelEvents == 4      \* wheel events in one run of the zoom
MaxTokenParts == 3       \* dot-separated numbers in a version token
MaxRevision == 163       \* the highest THREE.REVISION a loader is run with

---------------------------------------------------------------------------
(* Documents the iframe can hold *)

ViewerDocs == {"viewerA", "viewerB"}     \* bootstrap documents of supported versions
InfoDoc == "info"                        \* _buildInfoPageTemplate: no Render Host
NullDoc == "null"                        \* iframe.srcdoc = null
BootstrapDocs == ViewerDocs \cup {InfoDoc}

---------------------------------------------------------------------------
(* Bridge *)

Msg(command, args) == [command |-> command, args |-> args]

NoArgs == [none |-> TRUE]

\* sendViewerMessage(command, args) on the queue q of iframe.contentWindow
sendViewerMessage(q, ready, command, args) ==
    IF ready THEN Append(q, Msg(command, args)) ELSE q

\* A merge that lets the text input go
MergeStateLosesText(parentState, iframeState) ==
    [k \in (DOMAIN parentState) \cup {"cameraState", "pivotState"} |->
        IF k = "cameraState" THEN Some(iframeState.cameraState)
        ELSE IF k = "pivotState" THEN Some(iframeState.pivotState)
        ELSE IF k = "text" THEN ""
        ELSE parentState[k]]

\* { ...parentState, ...iframeState }
MergeState(parentState, iframeState) ==
    [k \in (DOMAIN parentState) \cup {"cameraState", "pivotState"} |->
        IF k = "cameraState" THEN Some(iframeState.cameraState)
        ELSE IF k = "pivotState" THEN Some(iframeState.pivotState)
        ELSE parentState[k]]

\* Events of a Host that has been replaced stay queued at the parent:
\* event.source is still iframe.contentWindow.
MarkStale(q) == [i \in 1..Len(q) |-> [q[i] EXCEPT !.stale = TRUE]]

Stamp(out) == [i \in 1..Len(out) |-> [ev |-> out[i], stale |-> FALSE]]

\* reloadViewerWithVersion(generatedHtml): the new document replaces the old Host;
\* what was posted to the old window is lost with it.
reloadViewerWithVersion(generatedHtml) ==
    /\ isViewerReady' = FALSE
    /\ srcdoc' = IF generatedHtml = None THEN NullDoc ELSE The(generatedHtml)
    /\ hostUp' = FALSE
    /\ host' = FreshHost
    /\ toHost' = <<>>
    /\ curReadySeen' = FALSE

OnReady(e) ==
    /\ isViewerReady' = TRUE
    /\ toHost' = IF completeStateToRestore # None
                 THEN sendViewerMessage(toHost, TRUE, "restoreState",
                                        The(completeStateToRestore))
                 ELSE toHost
    /\ completeStateToRestore' = None
    /\ readyEffects' = IF completeStateToRestore # None
                       THEN <<"restoreState", "onReadyCallback">>
                       ELSE <<"onReadyCallback">>
    /\ curReadySeen' = (curReadySeen \/ ~e.stale)
    /\ toBridge' = Tail(toBridge)
    /\ UNCHANGED <<pendingReloadUrl, srcdoc, hostUp, host, byReload>>

OnViewerStateResponse(e) ==
    /\ completeStateToRestore' = Some(MergeState(e.ev.payload.parentState, e.ev.state))
    /\ reloadViewerWithVersion(pendingReloadUrl)
    /\ pendingReloadUrl' = None
    /\ toBridge' = MarkStale(Tail(toBridge))
    /\ byReload' = TRUE
    /\ UNCHANGED readyEffects

\* A Bridge that forwards whatever the font manager returned, null included
OnRequestFontDataForRestoreAlways(e) ==
    /\ toHost' = sendViewerMessage(toHost, isViewerReady, "fontDataForRestore",
                                   [fontData |-> appFont])
    /\ toBridge' = Tail(toBridge)
    /\ UNCHANGED <<bridgeVars, srcdoc, hostUp, host, readyHist>>

\* dependencies.fontManager.provideFontDataForRestore() is the Orchestrator's font
OnRequestFontDataForRestore(e) ==
    /\ toHost' = IF appFont # NoFont
                 THEN sendViewerMessage(toHost, isViewerReady, "fontDataForRestore",
                                        [fontData |-> appFont])
                 ELSE toHost
    /\ toBridge' = Tail(toBridge)
    /\ UNCHANGED <<bridgeVars, srcdoc, hostUp, host, readyHist>>

OnReportError(e) ==
    /\ toBridge' = Tail(toBridge)
    /\ UNCHANGED <<bridgeVars, srcdoc, hostUp, host, toHost, readyHist>>

\* The Bridge's message listener takes the next event posted to the parent.
BridgeReceive ==
    /\ toBridge # <<>>
    /\ LET e == Head(toBridge) IN
        CASE e.ev.command = "ready" -> OnReady(e)
          [] e.ev.command = "viewerStateResponse" -> OnViewerStateResponse(e)
          [] e.ev.command = "requestFontDataForRestore" -> OnRequestFontDataForRestore(e)
          [] OTHER -> OnReportError(e)
    /\ UNCHANGED <<appFont, calls, lastCmd, testHist>>

---------------------------------------------------------------------------
(* Orchestrator: calls of the Bridge's exported functions *)

UpdateArgs(fontData, text, is3D, shouldFrame, shouldResetPosition, fontHasChanged) ==
    [fontData |-> fontData, text |-> text, is3D |-> is3D, shouldFrame |-> shouldFrame,
     shouldResetPosition |-> shouldResetPosition, fontHasChanged |-> fontHasChanged]

MouseArgs(pan, zoom, rotateObject, moveObject, rotateCamera) ==
    [pan |-> pan, zoom |-> zoom, rotateObject |-> rotateObject,
     moveObject |-> moveObject, rotateCamera |-> rotateCamera]

\* AppState.viewerState of main.js when the application starts
InitialViewerState ==
    [panEnabled |-> FALSE, zoomEnabled |-> TRUE, is3D |-> TRUE, gridVisible |-> TRUE,
     rotationEnabled |-> TRUE, rotateObjectEnabled |-> TRUE, moveObjectEnabled |-> FALSE,
     rotateCameraEnabled |-> FALSE, isWireframeModeActive |-> FALSE,
     isBoundingBoxVisible |-> FALSE, savedViewState |-> None,
     currentColor |-> "#0077fe", currentAlpha |-> 10, currentMaterialName |-> "Phong"]

\* AppState.viewerState of main.js plus the text input: the parentState of a reload
ParentState(text) ==
    [panEnabled |-> FALSE, zoomEnabled |-> TRUE, is3D |-> TRUE, gridVisible |-> TRUE,
     rotationEnabled |-> TRUE, rotateObjectEnabled |-> TRUE, moveObjectEnabled |-> FALSE,
     rotateCameraEnabled |-> FALSE, isWireframeModeActive |-> FALSE,
     isBoundingBoxVisible |-> FALSE, currentColor |-> "#0077fe", currentAlpha |-> 10,
     currentMaterialName |-> "Phong", text |-> text]

Texts == {"", "n"}

CallUpdateArgs ==
    {UpdateArgs("F1", "n", TRUE, FALSE, FALSE, TRUE),
     UpdateArgs(NoFont, "", FALSE, FALSE, FALSE, FALSE)}

\* A command wrapper: sendViewerMessage and nothing else.
Wrapper(command, args) ==
    /\ calls < MaxCalls
    /\ calls' = calls + 1
    /\ toHost' = sendViewerMessage(toHost, isViewerReady, command, args)
    /\ UNCHANGED <<bridgeVars, srcdoc, hostUp, host, toBridge, appFont, readyHist, lastCmd, testHist>>

CallUpdate == \E a \in CallUpdateArgs : Wrapper("update", a)
CallSetColor == Wrapper("setColor", [color |-> "#ff0000", alpha |-> 5])
CallSetMaterial == Wrapper("setMaterial", [material |-> "Wireframe"])
CallToggleRotation == Wrapper("toggleRotation", [enabled |-> FALSE])
CallToggleGrid == Wrapper("toggleGrid", [visible |-> FALSE])
CallResetView == Wrapper("resetView", NoArgs)
CallUpdateTheme == Wrapper("updateTheme", [theme |-> "light"])
CallSetMouseState == Wrapper("setMouseState", MouseArgs(TRUE, TRUE, FALSE, FALSE, FALSE))
CallSetWireframe == \E b \in BOOLEAN : Wrapper("setWireframe", [active |-> b])
CallToggleBoundingBox == Wrapper("toggleBoundingBox", [visible |-> TRUE])
CallFontDataForRestore == Wrapper("fontDataForRestore", [fontData |-> "F1"])

\* requestAndReload(newContent, parentState): posts whatever isViewerReady is
requestAndReload(newContent, parentState) ==
    /\ pendingReloadUrl' = Some(newContent)
    /\ toHost' = Append(toHost, Msg("requestViewerState", [parentState |-> parentState]))

CallRequestAndReload ==
    /\ calls < MaxCalls
    /\ calls' = calls + 1
    /\ \E d \in BootstrapDocs, t \in Texts : requestAndReload(d, ParentState(t))
    /\ UNCHANGED <<isViewerReady, completeStateToRestore, srcdoc, hostUp, host, toBridge,
                   appFont, readyHist, lastCmd, testHist>>

\* The font manager finishes loading a font (initFontManager's callback).
FontLoaded ==
    /\ appFont = NoFont
    /\ appFont' = "F1"
    /\ UNCHANGED <<bridgeVars, srcdoc, hostUp, host, toHost, toBridge, calls,
                   readyHist, lastCmd, testHist>>

---------------------------------------------------------------------------
(* Render Host inside the iframe *)

\* The bootstrap document loads the library and runs initViewer: the scene is built,
\* the listener registered, 'ready' posted.
\* A Host that signals readiness first and registers its listener afterwards
HostBootReadyFirst ==
    /\ srcdoc \in ViewerDocs
    /\ ~hostUp
    /\ IF ~curReadySeen /\ \A i \in 1..Len(toBridge) : toBridge[i].stale
       THEN /\ toBridge' = Append(toBridge, [ev |-> [command |-> "ready"], stale |-> FALSE])
            /\ UNCHANGED <<hostUp, host>>
       ELSE /\ hostUp' = TRUE
            /\ host' = FreshHost
            /\ UNCHANGED toBridge
    /\ UNCHANGED <<bridgeVars, srcdoc, toHost, appFont, calls, readyHist,
                   lastCmd, testHist>>

HostBoot ==
    /\ srcdoc \in ViewerDocs
    /\ ~hostUp
    /\ hostUp' = TRUE
    /\ host' = FreshHost
    /\ toBridge' = Append(toBridge, [ev |-> [command |-> "ready"], stale |-> FALSE])
    /\ UNCHANGED <<bridgeVars, srcdoc, toHost, appFont, calls, readyHist,
                   lastCmd, testHist>>

\* The Host's listener takes the next message.
HostReceive ==
    /\ hostUp
    /\ toHost # <<>>
    /\ LET h == HostDispatch(host, Head(toHost)) IN
        /\ host' = Settled(h)
        /\ toBridge' = toBridge \o Stamp(h.out)
    /\ lastCmd' = Head(toHost)
    /\ toHost' = Tail(toHost)
    /\ UNCHANGED <<bridgeVars, srcdoc, hostUp, appFont, calls, readyHist,
                   testHist>>

\* A message reaches a window in which no listener is registered (the document is
\* still loading, or holds no Render Host): it is lost.
DropUnheard ==
    /\ ~hostUp
    /\ toHost # <<>>
    /\ toHost' = Tail(toHost)
    /\ UNCHANGED <<bridgeVars, srcdoc, hostUp, host, toBridge, appFont, calls,
                   readyHist, lastCmd, testHist>>

\* requestAnimationFrame(frameObject), scheduled by the wireframe activation, runs.
RunFrameCallback ==
    /\ hostUp
    /\ host.frameCallbacks > 0
    /\ host' = [frameObject(host) EXCEPT !.frameCallbacks = @ - 1]
    /\ lastCmd' = Msg("frameObject", NoArgs)
    /\ UNCHANGED <<bridgeVars, srcdoc, hostUp, toHost, toBridge, appFont, calls,
                   readyHist>>

HostFrameCallback == RunFrameCallback /\ UNCHANGED testHist

\* animate(): one frame of the render loop that turns the Pivot.
animate ==
    /\ hostUp
    /\ host.rotationEnabled
    /\ host.pivotRot[2] < MaxSpin
    /\ host' = [host EXCEPT !.pivotRot[2] = @ + 1]
    /\ lastCmd' = Msg("animate", NoArgs)
    /\ UNCHANGED <<bridgeVars, srcdoc, hostUp, toHost, toBridge, appFont, calls,
                   readyHist, testHist>>

---------------------------------------------------------------------------
(* Versioner: from an asset URL to the bootstrap document of the iframe *)

\* A version string: an optional leading 'r', dot-separated numbers, or a word that is
\* no number at all.  "0.158.0" is Sem(0, 158, 0), "r128" is R(128), "128" is Bare(128).
VersionString(r, parts, word) == [r |-> r, parts |-> parts, word |-> word]
Sem(a, b, c) == VersionString(FALSE, <<a, b, c>>, "")
Sem2(a, b) == VersionString(FALSE, <<a, b>>, "")
R(n) == VersionString(TRUE, <<n>>, "")
Bare(n) == VersionString(FALSE, <<n>>, "")
Word(w) == VersionString(FALSE, <<>>, w)

allowedFiles == {"three.js", "three.min.js", "three.module.js", "three.module.min.js"}

\* An asset URL: what stands before the version token ("three@", "three.js/" or
\* neither), the token if the path holds one, and the file name.
AssetUrl(lead, token, file) == [lead |-> lead, token |-> token, file |-> file]

default_threejs_version_url == AssetUrl("three.js/", Some(R(128)), "three.min.js")

\* url.match(/three(?:@|\.js\/)([0-9r.]+[0-9])/)
_extractVersion(url) ==
    IF url.lead \in {"three@", "three.js/"} /\ url.token # None /\ The(url.token).word = ""
    THEN url.token
    ELSE None

\* The empty string
EmptyString == VersionString(FALSE, <<>>, "")

\* A normalizer without the rule for bare numbers
_normalizeVersionNoBare(versionString) ==
    IF versionString = None \/ versionString = Some(EmptyString) THEN Sem(0, 0, 0)
    ELSE LET v == The(versionString) IN
         IF v.r THEN VersionString(FALSE, <<0>> \o v.parts \o <<0>>, "")
         ELSE v

\* A normalizer that only strips the leading 'r'
_normalizeVersionStripsR(versionString) ==
    IF versionString = None \/ versionString = Some(EmptyString) THEN Sem(0, 0, 0)
    ELSE LET v == The(versionString) IN
         IF v.r THEN VersionString(FALSE, v.parts, "")
         ELSE IF v.word = "" /\ Len(v.parts) = 1
              THEN VersionString(FALSE, <<0>> \o v.parts \o <<0>>, "")
         ELSE v

_normalizeVersion(versionString) ==
    IF versionString = None \/ versionString = Some(EmptyString) THEN Sem(0, 0, 0)
    ELSE LET v == The(versionString) IN
         IF v.r THEN VersionString(FALSE, <<0>> \o v.parts \o <<0>>, "")
         ELSE IF v.word = "" /\ Len(v.parts) = 1
              THEN VersionString(FALSE, <<0>> \o v.parts \o <<0>>, "")
         ELSE v

\* normalized.split('.').map(Number)[i - 1]: None is undefined or NaN
NumberAt(v, i) ==
    IF v.word = "" /\ ~v.r /\ i <= Len(v.parts) THEN Some(v.parts[i]) ELSE None

\* v1 > v2 and v1 < v2 of JavaScript: false when either side is undefined or NaN
Greater(a, b) == a # None /\ b # None /\ The(a) > The(b)
Less(a, b) == a # None /\ b # None /\ The(a) < The(b)

RECURSIVE GreaterOrEqualFrom(_, _, _)
GreaterOrEqualFrom(v1, v2, i) ==
    IF i > 3 THEN TRUE
    ELSE IF Greater(NumberAt(v1, i), NumberAt(v2, i)) THEN TRUE
    ELSE IF Less(NumberAt(v1, i), NumberAt(v2, i)) THEN FALSE
    ELSE GreaterOrEqualFrom(v1, v2, i + 1)

\* A lower end that a version has to exceed
isGreaterOrEqualExclusive(v1, v2) == GreaterOrEqualFrom(v1, v2, 1) /\ v1 # v2

isGreaterOrEqual(v1, v2) == GreaterOrEqualFrom(v1, v2, 1)

RECURSIVE LessOrEqualFrom(_, _, _)
LessOrEqualFrom(v1, v2, i) ==
    IF i > 3 THEN TRUE
    ELSE IF Less(NumberAt(v1, i), NumberAt(v2, i)) THEN TRUE
    ELSE IF Greater(NumberAt(v1, i), NumberAt(v2, i)) THEN FALSE
    ELSE LessOrEqualFrom(v1, v2, i + 1)

isLessOrEqual(v1, v2) == LessOrEqualFrom(v1, v2, 1)

_isVersionInRange(versionToCheck, rangeStart, rangeEnd) ==
    LET normVersion == _normalizeVersion(versionToCheck)
        normStart == _normalizeVersion(rangeStart)
        normEnd == _normalizeVersion(rangeEnd)
    IN isGreaterOrEqual(normVersion, normStart) /\ isLessOrEqual(normVersion, normEnd)

\* A <script> element of a generated document
Script(type, src) == [type |-> type, src |-> src]
LocalFile(path) == [local |-> path]
Jsdelivr(version, path) == [cdn |-> "cdn.jsdelivr.net/npm/three@", version |-> version,
                            path |-> path]

\* A generated document: its kind, title, script elements in order, import map and
\* the detail line of an explanatory page
Document(kind, title, scripts, imports, details) ==
    [kind |-> kind, title |-> title, scripts |-> scripts, imports |-> imports,
     details |-> details]

_buildHtmlTemplate(mainScriptUrl, addonScripts) ==
    Document("classic", <<"Three.js Viewer", mainScriptUrl.file>>,
             <<Script("classic", mainScriptUrl)>> \o addonScripts
                 \o <<Script("classic", LocalFile("viewer/viewer-legacy.js"))>>,
             None, None)

_buildInfoPageTemplate(title, details) ==
    Document("info", title, <<>>, None, details)

_getAddonBasePath(versionUrl) ==
    LET version == _extractVersion(versionUrl)
        normalizedVersion == _normalizeVersion(IF version # None THEN version
                                               ELSE Some(Word("latest")))
    IN Jsdelivr(normalizedVersion, "examples/jsm/")

get_html_module(versionUrl) ==
    Document("module", <<"Three.js Viewer", versionUrl.file>>,
             <<Script("module", LocalFile("viewer/viewer-module.js"))>>,
             Some([three |-> versionUrl, addons |-> _getAddonBasePath(versionUrl)]),
             None)

\* get_html_legacy without its last return: no range holds, nothing is returned
get_html_legacyNoFallback(versionUrl) ==
    LET extractedVersion == _extractVersion(versionUrl) IN
    IF _isVersionInRange(extractedVersion, Some(Sem(0, 0, 0)), Some(Sem(0, 73, 9)))
    THEN _buildInfoPageTemplate(<<"Version Not Supported", extractedVersion>>, None)
    ELSE IF \/ _isVersionInRange(extractedVersion, Some(Sem(0, 74, 0)), Some(Sem(0, 80, 9)))
            \/ _isVersionInRange(extractedVersion, Some(Sem(0, 81, 0)), Some(Sem(0, 132, 2)))
    THEN _buildHtmlTemplate(versionUrl, <<>>)
    ELSE IF _isVersionInRange(extractedVersion, Some(Sem(0, 133, 0)), Some(Sem(0, 147, 0)))
    THEN LET normalizedVersion == _normalizeVersion(extractedVersion) IN
         _buildHtmlTemplate(versionUrl,
            <<Script("classic", Jsdelivr(normalizedVersion, "examples/js/loaders/FontLoader.js")),
              Script("classic", Jsdelivr(normalizedVersion,
                                         "examples/js/geometries/TextGeometry.js"))>>)
    ELSE Document("undefined", <<>>, <<>>, None, None)

get_html_legacy(versionUrl) ==
    LET extractedVersion == _extractVersion(versionUrl) IN
    IF _isVersionInRange(extractedVersion, Some(Sem(0, 0, 0)), Some(Sem(0, 73, 9)))
    THEN _buildInfoPageTemplate(<<"Version Not Supported", extractedVersion>>, None)
    ELSE IF _isVersionInRange(extractedVersion, Some(Sem(0, 74, 0)), Some(Sem(0, 80, 9)))
    THEN _buildHtmlTemplate(versionUrl, <<>>)
    ELSE IF _isVersionInRange(extractedVersion, Some(Sem(0, 81, 0)), Some(Sem(0, 132, 2)))
    THEN _buildHtmlTemplate(versionUrl, <<>>)
    ELSE IF _isVersionInRange(extractedVersion, Some(Sem(0, 133, 0)), Some(Sem(0, 147, 0)))
    THEN LET normalizedVersion == _normalizeVersion(extractedVersion) IN
         _buildHtmlTemplate(versionUrl,
            <<Script("classic", Jsdelivr(normalizedVersion, "examples/js/loaders/FontLoader.js")),
              Script("classic", Jsdelivr(normalizedVersion,
                                         "examples/js/geometries/TextGeometry.js"))>>)
    ELSE LET normalizedVersion ==
                 _normalizeVersion(IF extractedVersion # None THEN extractedVersion
                                   ELSE Some(Sem(0, 148, 0)))
         IN _buildInfoPageTemplate(<<"Version Incompatibility", Some(normalizedVersion)>>,
                                   Some(versionUrl))

\* versionUrl.includes("module")
IncludesModule(versionUrl) == versionUrl.file \in {"three.module.js", "three.module.min.js"}

_generateIframeHtml(versionUrl) ==
    IF ~IncludesModule(versionUrl) THEN get_html_legacy(versionUrl)
    ELSE get_html_module(versionUrl)

\* No token under normalization, no loader under study
NormalizerIdle == versionToken = None /\ normalized = <<>>
LoaderIdle ==
    /\ THREE = [REVISION |-> [number |-> None, suffix |-> ""], TextGeometry |-> FALSE]
    /\ loaderConfig = [legacy |-> None, module |-> None]

\* The versioner at rest, while the viewer is in use
VersionerIdle ==
    /\ NormalizerIdle
    /\ LoaderIdle
    /\ assetUrl = default_threejs_version_url
    /\ iframeHtml = None
    /\ rangeQuery = <<None, None, None>>
    /\ inRange = None

---------------------------------------------------------------------------
(* The application: main.js has called initViewerBridge and                 *)
(* reloadViewerWithVersion(initialHtml)                                     *)

NoCmd == Msg("none", NoArgs)

Init ==
    /\ isViewerReady = FALSE
    /\ completeStateToRestore = None
    /\ pendingReloadUrl = None
    /\ srcdoc = "viewerA"
    /\ hostUp = FALSE
    /\ host = FreshHost
    /\ toHost = <<>>
    /\ toBridge = <<>>
    /\ appFont = NoFont
    /\ calls = 0
    /\ curReadySeen = FALSE
    /\ byReload = FALSE
    /\ readyEffects = <<>>
    /\ lastCmd = NoCmd
    /\ hist = <<>>
    /\ base = None
    /\ VersionerIdle
    /\ fontDataHasChanged = TRUE
    /\ viewerState = InitialViewerState

Next ==
    \/ HostBoot
    \/ BridgeReceive
    \/ HostReceive
    \/ DropUnheard
    \/ HostFrameCallback
    \/ animate
    \/ FontLoaded
    \/ CallRequestAndReload
    \/ CallUpdate
    \/ CallSetColor
    \/ CallSetMaterial
    \/ CallToggleRotation
    \/ CallToggleGrid
    \/ CallResetView
    \/ CallUpdateTheme
    \/ CallSetMouseState
    \/ CallSetWireframe
    \/ CallToggleBoundingBox
    \/ CallFontDataForRestore

Spec == Init /\ [][Next]_vars

\* The reload protocol alone, with the scheduling both event loops guarantee: a posted
\* message is dispatched, a loading document finishes loading.  The Orchestrator is
\* under no obligation to call anything.
LiveNext ==
    \/ HostBoot
    \/ BridgeReceive
    \/ HostReceive
    \/ DropUnheard
    \/ CallRequestAndReload

LiveSpec ==
    /\ Init
    /\ [][LiveNext]_vars
    /\ WF_vars(HostBoot)
    /\ WF_vars(BridgeReceive)
    /\ WF_vars(HostReceive)
    /\ WF_vars(DropUnheard)

\* The ready handshake: documents load, the Bridge and the Host take their messages,
\* the Orchestrator renders and reloads.
NextHandshake ==
    \/ HostBoot
    \/ BridgeReceive
    \/ HostReceive
    \/ DropUnheard
    \/ FontLoaded
    \/ CallRequestAndReload
    \/ CallUpdate
    \/ CallSetColor

SpecHandshake == Init /\ [][NextHandshake]_vars

---------------------------------------------------------------------------
(* The Orchestrator's updates: main.js sends the font data with an update only *)
(* while AppState.fontDataHasChanged is set.                                   *)

\* updateViewer(options) of main.js, the text input holding text and the current font
\* having the data font: Viewer.update({ text: '' }) for an empty text; else the
\* update, with the font data if it has changed, and the flag is cleared.
OrchestratorUpdateViewer(font, text) ==
    /\ toHost' = sendViewerMessage(toHost, isViewerReady, "update",
                     IF text = ""
                     THEN UpdateArgs(NoFont, "", FALSE, FALSE, FALSE, FALSE)
                     ELSE UpdateArgs(IF fontDataHasChanged THEN font ELSE NoFont, text,
                                     TRUE, FALSE, FALSE, fontDataHasChanged))
    /\ fontDataHasChanged' = IF text = "" THEN fontDataHasChanged ELSE FALSE

\* liveUpdateViewer(): the text input or the editor has changed
liveUpdateViewer ==
    /\ calls < MaxCalls
    /\ calls' = calls + 1
    /\ appFont # NoFont                  \* if (!AppState.currentFontID) return
    /\ \E text \in Texts : OrchestratorUpdateViewer(appFont, text)
    /\ UNCHANGED <<bridgeVars, srcdoc, hostUp, host, toBridge, appFont, readyHist,
                   lastCmd, hist, base, versionerVars, viewerState>>

\* _setCurrentFont(fontID): the font is made current, the flag set, the viewer updated
_setCurrentFont ==
    /\ calls < MaxCalls
    /\ calls' = calls + 1
    /\ appFont' = "F1"
    /\ \E text \in Texts :
          /\ toHost' = sendViewerMessage(toHost, isViewerReady, "update",
                           IF text = ""
                           THEN UpdateArgs(NoFont, "", FALSE, FALSE, FALSE, FALSE)
                           ELSE UpdateArgs("F1", text, TRUE, FALSE, FALSE, TRUE))
          /\ fontDataHasChanged' = (text = "")
    /\ UNCHANGED <<bridgeVars, srcdoc, hostUp, host, toBridge, readyHist,
                   lastCmd, hist, base, versionerVars, viewerState>>

NextFont ==
    \/ HostBoot
    \/ BridgeReceive
    \/ HostReceive
    \/ DropUnheard
    \/ CallRequestAndReload
    \/ liveUpdateViewer
    \/ _setCurrentFont

SpecFont == Init /\ [][NextFont]_vars

---------------------------------------------------------------------------
(* The Render Host alone: commands arrive at its listener in any order; the events *)
(* it posts are taken by the parent at once, so toBridge holds those of the last   *)
(* step.                                                                           *)

InitHost ==
    /\ isViewerReady = TRUE
    /\ completeStateToRestore = None
    /\ pendingReloadUrl = None
    /\ srcdoc = "viewerA"
    /\ hostUp = TRUE
    /\ host = FreshHost
    /\ toHost = <<>>
    /\ toBridge = <<>>
    /\ appFont = "F1"
    /\ calls = 0
    /\ curReadySeen = TRUE
    /\ byReload = FALSE
    /\ readyEffects = <<"onReadyCallback">>
    /\ lastCmd = NoCmd
    /\ hist = <<>>
    /\ base = None
    /\ VersionerIdle
    /\ fontDataHasChanged = TRUE
    /\ viewerState = InitialViewerState

HostStep(m) ==
    /\ hostUp
    /\ calls < MaxHostCmds
    /\ calls' = calls + 1
    /\ LET h == HostDispatch(host, m) IN
        /\ host' = Settled(h)
        /\ toBridge' = Stamp(h.out)
    /\ lastCmd' = m
    /\ UNCHANGED <<bridgeVars, srcdoc, hostUp, toHost, appFont, readyHist>>

\* Camera and Pivot transforms a restored state can carry
IframeStates ==
    {[cameraState |-> [position |-> <<0, 7, 25>>, rotation |-> <<-3, 0, 0>>],
      pivotState |-> [position |-> <<0, 3, 0>>, rotation |-> <<0, 1, 0>>]],
     [cameraState |-> [position |-> <<4, 2, 9>>, rotation |-> <<1, 2, 0>>],
      pivotState |-> [position |-> <<2, 5, 1>>, rotation |-> <<1, 0, 0>>]]}

HostUpdateArgs ==
    {UpdateArgs("F1", "n", d, fr, rs, TRUE) :
        d \in BOOLEAN, fr \in BOOLEAN, rs \in BOOLEAN}
    \cup {UpdateArgs("F2", "n", TRUE, FALSE, FALSE, TRUE),
          UpdateArgs(BadFont, "n", TRUE, FALSE, FALSE, TRUE),
          UpdateArgs(NoFont, "n", TRUE, FALSE, FALSE, FALSE),
          UpdateArgs(NoFont, "n", FALSE, TRUE, TRUE, FALSE),
          UpdateArgs(NoFont, "n", TRUE, FALSE, FALSE, TRUE),
          UpdateArgs(NoFont, "", FALSE, FALSE, FALSE, FALSE)}

HostRestoreStates ==
    {MergeState([ParentState(t) EXCEPT !.currentMaterialName = m, !.is3D = d],
                [cameraState |-> [position |-> <<4, 2, 9>>, rotation |-> <<1, 2, 0>>],
                 pivotState |-> [position |-> <<2, 5, 1>>, rotation |-> <<1, 0, 0>>]]) :
        t \in Texts, m \in {"Phong", "Wireframe"}, d \in BOOLEAN}

HostCommands ==
    {Msg("update", a) : a \in HostUpdateArgs}
    \cup {Msg("setColor", [color |-> c, alpha |-> 5]) : c \in {"#0077fe", "#ff0000"}}
    \cup {Msg("setMaterial", [material |-> m]) : m \in {"Phong", "Basic", "Wireframe", "Glass"}}
    \cup {Msg("toggleRotation", [enabled |-> b]) : b \in BOOLEAN}
    \cup {Msg("toggleGrid", [visible |-> b]) : b \in BOOLEAN}
    \cup {Msg("toggleBoundingBox", [visible |-> b]) : b \in BOOLEAN}
    \cup {Msg("resetView", NoArgs)}
    \cup {Msg("updateTheme", [theme |-> t]) : t \in {"dark", "light"}}
    \cup {Msg("setMouseState", a) : a \in {MouseArgs(TRUE, TRUE, FALSE, FALSE, FALSE),
                                           MouseArgs(FALSE, FALSE, TRUE, FALSE, TRUE)}}
    \cup {Msg("setWireframe", [active |-> b]) : b \in BOOLEAN}
    \cup {Msg("restoreState", v) : v \in HostRestoreStates}
    \cup {Msg("requestViewerState", [parentState |-> ParentState("n")])}
    \cup {Msg("fontDataForRestore", [fontData |-> f]) : f \in {"F1", BadFont}}

\* One message event taken by the listener of setupMessageListener.
HostCommand ==
    /\ \E m \in HostCommands :
          /\ (m.command = "setWireframe" /\ m.args.active)
                => host.frameCallbacks < MaxFrameCallbacks
          /\ HostStep(m)
    /\ UNCHANGED testHist

NextHost ==
    \/ HostCommand
    \/ HostFrameCallback
    \/ animate

SpecHost == InitHost /\ [][NextHost]_vars

---------------------------------------------------------------------------
(* The Render Host when calls into the library may throw *)

WithFault(args, f) ==
    [k \in (DOMAIN args) \cup {"fault"} |-> IF k = "fault" THEN f ELSE args[k]]

UpdateFaults == {"geometry", "material", "placement", "framing", "bbox"}

FaultCommands ==
    {Msg("update", UpdateArgs("F1", "n", TRUE, TRUE, FALSE, TRUE)),
     Msg("update", UpdateArgs("F1", "n", FALSE, FALSE, TRUE, TRUE)),
     Msg("update", UpdateArgs(NoFont, "n", TRUE, FALSE, FALSE, FALSE)),
     Msg("update", UpdateArgs(BadFont, "n", TRUE, FALSE, FALSE, TRUE)),
     Msg("update", UpdateArgs(NoFont, "", FALSE, FALSE, FALSE, FALSE)),
     Msg("update", UpdateArgs(NoFont, "", FALSE, FALSE, FALSE, TRUE)),
     Msg("update", UpdateArgs("F2", "", FALSE, FALSE, FALSE, TRUE))}
    \cup {Msg("update", WithFault(UpdateArgs("F1", "n", TRUE, TRUE, FALSE, TRUE), f)) :
             f \in UpdateFaults}
    \cup {Msg("toggleBoundingBox", [visible |-> b]) : b \in BOOLEAN}
    \cup {Msg("toggleBoundingBox", WithFault([visible |-> TRUE], "bbox"))}
    \cup {Msg("setMaterial", [material |-> "Toon"]),
          Msg("setMaterial", WithFault([material |-> "Toon"], "material"))}
    \cup {Msg("setWireframe", [active |-> b]) : b \in BOOLEAN}
    \cup {Msg("setWireframe", WithFault([active |-> TRUE], "material"))}
    \cup {Msg("resetView", NoArgs)}

FaultCommand ==
    /\ \E m \in FaultCommands :
          /\ (m.command = "setWireframe" /\ m.args.active)
                => host.frameCallbacks < MaxFrameCallbacks
          /\ HostStep(m)
          /\ hist' = <<IF HostDispatch(host, m).threw THEN "threw" ELSE "returned">>
          /\ base' = IF HostDispatch(host, m).threw THEN Some(m.command) ELSE base
          /\ UNCHANGED <<versionerVars, fontDataHasChanged, viewerState>>

NextFault ==
    \/ FaultCommand
    \/ HostFrameCallback

SpecFault == InitHost /\ [][NextFault]_vars

---------------------------------------------------------------------------
(* A reload seen from the new Host: restoreState is its first command, and the  *)
(* font data it asks for follows.                                               *)

MouseModes ==
    {MouseArgs(FALSE, TRUE, TRUE, FALSE, FALSE), MouseArgs(TRUE, TRUE, FALSE, FALSE, FALSE),
     MouseArgs(FALSE, FALSE, FALSE, TRUE, FALSE), MouseArgs(FALSE, TRUE, FALSE, FALSE, TRUE)}

RestoreStateOf(t, m, d, g, r, mo, x) ==
    MergeState([ParentState(t) EXCEPT
                    !.currentMaterialName = m, !.is3D = d, !.gridVisible = g,
                    !.rotationEnabled = r, !.panEnabled = mo.pan, !.zoomEnabled = mo.zoom,
                    !.rotateObjectEnabled = mo.rotateObject,
                    !.moveObjectEnabled = mo.moveObject,
                    !.rotateCameraEnabled = mo.rotateCamera], x)

RestoreStates ==
    {[RestoreStateOf(t, MaterialNames[i], d, g, r, mo, x) EXCEPT !.isBoundingBoxVisible = b] :
        t \in Texts, i \in 1..Len(MaterialNames), d \in BOOLEAN, g \in BOOLEAN,
        r \in BOOLEAN, mo \in MouseModes, x \in IframeStates, b \in BOOLEAN}

RestoreFirst ==
    /\ hist = <<>>
    /\ \E v \in RestoreStates :
          /\ HostStep(Msg("restoreState", v))
          /\ base' = Some(v)
    /\ hist' = <<"restoreState">>
    /\ UNCHANGED <<versionerVars, fontDataHasChanged, viewerState>>

RestoreFontData ==
    /\ hist = <<"restoreState">>
    /\ The(base).text # ""
    /\ \E f \in {"F1", "F2", BadFont} :
          HostStep(Msg("fontDataForRestore", [fontData |-> f]))
    /\ hist' = Append(hist, "fontDataForRestore")
    /\ UNCHANGED <<base, versionerVars, fontDataHasChanged, viewerState>>

NextRestore ==
    \/ RestoreFirst
    \/ RestoreFontData

SpecRestore == InitHost /\ [][NextRestore]_vars

---------------------------------------------------------------------------
(* After a reload: the Bridge has handled 'ready' and posted restoreState with the *)
(* text of the reload; the user goes on typing.                                     *)

\* Texts typed after the reload
NewTexts == {"m", ""}

InitTyping ==
    /\ isViewerReady = TRUE
    /\ completeStateToRestore = None
    /\ pendingReloadUrl = None
    /\ srcdoc = "viewerA"
    /\ hostUp = TRUE
    /\ host = FreshHost
    /\ \E v \in HostRestoreStates :
          /\ v.text = "n"
          /\ toHost = <<Msg("restoreState", v)>>
    /\ toBridge = <<>>
    /\ appFont = "F1"
    /\ calls = 0
    /\ curReadySeen = TRUE
    /\ byReload = TRUE
    /\ readyEffects = <<"restoreState", "onReadyCallback">>
    /\ lastCmd = NoCmd
    /\ hist = <<>>
    /\ base = None
    /\ VersionerIdle
    /\ fontDataHasChanged \in BOOLEAN
    /\ viewerState = InitialViewerState

\* The text input changes: liveUpdateViewer()
TypeText ==
    /\ calls < MaxCalls
    /\ calls' = calls + 1
    /\ \E text \in NewTexts :
          /\ OrchestratorUpdateViewer(appFont, text)
          /\ hist' = <<text>>
    /\ UNCHANGED <<bridgeVars, srcdoc, hostUp, host, toBridge, appFont, readyHist,
                   lastCmd, base, versionerVars, viewerState>>

NextTyping ==
    \/ HostReceive
    \/ BridgeReceive
    \/ TypeText

SpecTyping == InitTyping /\ [][NextTyping]_vars

---------------------------------------------------------------------------
(* Wireframe inspection mode entered and left from a Host in use *)

\* What a Host state shows: transforms, toggle flags, material and wireframe flag
ViewOf(h) ==
    [cameraPos |-> h.cameraPos, cameraRot |-> h.cameraRot, pivotPos |-> h.pivotPos,
     pivotRot |-> h.pivotRot, rotationEnabled |-> h.rotationEnabled,
     panEnabled |-> h.panEnabled, zoomEnabled |-> h.zoomEnabled,
     rotateObjectEnabled |-> h.rotateObjectEnabled,
     moveObjectEnabled |-> h.moveObjectEnabled,
     rotateCameraEnabled |-> h.rotateCameraEnabled, gridVisible |-> h.gridVisible,
     is3D |-> h.is3D, materialName |-> IF h.isWireframe THEN "Wireframe"
                      ELSE FindMaterialKey(h.currentMaterialConstructor),
     wireframe |-> h.isWireframe]

AllMouseModes ==
    {MouseArgs(p, z, ro, mo, rc) :
        p \in BOOLEAN, z \in BOOLEAN, ro \in BOOLEAN, mo \in BOOLEAN, rc \in BOOLEAN}

\* Host states before activation: a restored state, its text rendered if it has one
WireStartStates ==
    {[handleFontDataForRestore(
         applyRestoredState(FreshHost, RestoreStateOf(t, MaterialNames[i], d, g, r, mo, x)),
         [fontData |-> "F1"]) EXCEPT !.out = <<>>] :
        t \in Texts, i \in 1..Len(MaterialNames), d \in BOOLEAN, g \in BOOLEAN,
        r \in BOOLEAN, mo \in AllMouseModes, x \in IframeStates}

InitWire ==
    /\ isViewerReady = TRUE
    /\ completeStateToRestore = None
    /\ pendingReloadUrl = None
    /\ srcdoc = "viewerA"
    /\ hostUp = TRUE
    /\ host \in WireStartStates
    /\ toHost = <<>>
    /\ toBridge = <<>>
    /\ appFont = "F1"
    /\ calls = 0
    /\ curReadySeen = TRUE
    /\ byReload = FALSE
    /\ readyEffects = <<"onReadyCallback">>
    /\ lastCmd = NoCmd
    /\ hist = <<>>
    /\ base = Some(ViewOf(host))
    /\ VersionerIdle
    /\ fontDataHasChanged = TRUE
    /\ viewerState = InitialViewerState

Activate ==
    /\ Count(hist, "off") = 0
    /\ Count(hist, "on") < MaxActivations
    /\ host.frameCallbacks < MaxFrameCallbacks
    /\ HostStep(Msg("setWireframe", [active |-> TRUE]))
    /\ hist' = Append(hist, "on")
    /\ UNCHANGED <<base, versionerVars, fontDataHasChanged, viewerState>>

Deactivate ==
    /\ Count(hist, "off") = 0
    /\ Count(hist, "on") > 0
    /\ HostStep(Msg("setWireframe", [active |-> FALSE]))
    /\ hist' = Append(hist, "off")
    /\ UNCHANGED <<base, versionerVars, fontDataHasChanged, viewerState>>

\* The frameObject scheduled by an activation runs at the next animation frame.
WireFrameCallback ==
    /\ RunFrameCallback
    /\ hist' = Append(hist, "frameObject")
    /\ UNCHANGED <<base, versionerVars, fontDataHasChanged, viewerState>>

NextWire ==
    \/ Activate
    \/ Deactivate
    \/ WireFrameCallback

SpecWire == InitWire /\ [][NextWire]_vars

---------------------------------------------------------------------------
(* Wireframe mode and reload: the Orchestrator toggles the mode and reloads the viewer *)
(* with its own viewerState; the Bridge and the Host do the rest.                      *)

\* { ...AppState.viewerState, text: textInput.value }
WithText(vs, text) ==
    [k \in (DOMAIN vs) \cup {"text"} |-> IF k = "text" THEN text ELSE vs[k]]

\* window.toggleWireframeView on the Orchestrator's viewerState
toggleWireframeView(vs) ==
    LET newActiveState == ~vs.isWireframeModeActive
        stateToSave == [k \in (DOMAIN vs) \ {"savedViewState"} |-> vs[k]]
        vs1 == IF newActiveState
               THEN [vs EXCEPT !.savedViewState = Some(stateToSave),
                               !.panEnabled = TRUE, !.zoomEnabled = TRUE, !.is3D = FALSE,
                               !.gridVisible = FALSE, !.rotationEnabled = FALSE,
                               !.rotateObjectEnabled = FALSE, !.moveObjectEnabled = FALSE,
                               !.rotateCameraEnabled = FALSE]
               ELSE IF vs.savedViewState # None
               THEN [k \in DOMAIN vs |-> IF k = "savedViewState" THEN None
                                         ELSE The(vs.savedViewState)[k]]
               ELSE vs
    IN  [vs1 EXCEPT !.isWireframeModeActive = newActiveState]

\* The viewerState of the Orchestrator when the wireframe mode is first toggled
WireReloadViewerStates ==
    {[InitialViewerState EXCEPT
          !.currentMaterialName = m, !.is3D = d, !.gridVisible = g, !.rotationEnabled = r,
          !.panEnabled = mo.pan, !.zoomEnabled = mo.zoom,
          !.rotateObjectEnabled = mo.rotateObject, !.moveObjectEnabled = mo.moveObject,
          !.rotateCameraEnabled = mo.rotateCamera] :
        m \in {"Phong", "Toon"}, d \in BOOLEAN, g \in BOOLEAN, r \in BOOLEAN,
        mo \in {MouseArgs(FALSE, TRUE, TRUE, FALSE, FALSE),
                MouseArgs(TRUE, TRUE, FALSE, FALSE, FALSE)}}

\* The Host shows the text 'n' with the toggles of the Orchestrator's viewerState.
InitWireReload ==
    /\ isViewerReady = TRUE
    /\ completeStateToRestore = None
    /\ pendingReloadUrl = None
    /\ srcdoc = "viewerA"
    /\ hostUp = TRUE
    /\ viewerState \in WireReloadViewerStates
    /\ \E x \in IframeStates :
          host = [handleFontDataForRestore(
                     applyRestoredState(FreshHost, MergeState(WithText(viewerState, "n"), x)),
                     [fontData |-> "F1"]) EXCEPT !.out = <<>>]
    /\ toHost = <<>>
    /\ toBridge = <<>>
    /\ appFont = "F1"
    /\ calls = 0
    /\ curReadySeen = TRUE
    /\ byReload = FALSE
    /\ readyEffects = <<"onReadyCallback">>
    /\ lastCmd = NoCmd
    /\ hist = <<>>
    /\ base = Some(ViewOf(host))
    /\ VersionerIdle
    /\ fontDataHasChanged = FALSE

\* The new Host is ready and everything the restore posts has been handled.
HostRestored ==
    /\ hostUp /\ isViewerReady /\ curReadySeen /\ byReload
    /\ toHost = <<>> /\ toBridge = <<>>
    /\ completeStateToRestore = None
    /\ host.pendingStateRestore = None

\* The wireframe button: toggleWireframeView()
ToggleWireframeView ==
    /\ calls < MaxCalls
    /\ calls' = calls + 1
    /\ viewerState' = toggleWireframeView(viewerState)
    /\ toHost' = sendViewerMessage(toHost, isViewerReady, "setWireframe",
                                   [active |-> viewerState'.isWireframeModeActive])
    /\ hist' = Append(hist, IF viewerState'.isWireframeModeActive THEN "on"
                            ELSE IF HostRestored THEN "off" ELSE "offEarly")
    /\ UNCHANGED <<bridgeVars, srcdoc, hostUp, host, toBridge, appFont, readyHist,
                   lastCmd, base, versionerVars, fontDataHasChanged>>

\* The version selector: reloadViewerWithState(newContent)
reloadViewerWithState ==
    /\ calls < MaxCalls
    /\ calls' = calls + 1
    /\ \E newContent \in ViewerDocs :
          requestAndReload(newContent, WithText(viewerState, "n"))
    /\ hist' = Append(hist, IF isViewerReady /\ toHost = <<>> /\ host.frameCallbacks = 0
                            THEN "reload" ELSE "reloadEarly")
    /\ UNCHANGED <<isViewerReady, completeStateToRestore, srcdoc, hostUp, host, toBridge,
                   appFont, readyHist, lastCmd, base, versionerVars, fontDataHasChanged,
                   viewerState>>

NextWireReload ==
    \/ ToggleWireframeView
    \/ reloadViewerWithState
    \/ HostBoot
    \/ BridgeReceive
    \/ HostReceive
    \/ DropUnheard
    \/ HostFrameCallback

SpecWireReload == InitWireReload /\ [][NextWireReload]_vars

---------------------------------------------------------------------------
(* The mouse controls of a Host showing a text *)

MouseEvents == {[clientX |-> x, clientY |-> y] : x \in {0, 1}, y \in {0, 2}}

MouseStartStates ==
    {setMouseState(updateViewer(FreshHost, UpdateArgs("F1", "n", TRUE, FALSE, FALSE, TRUE)),
                   a) : a \in AllMouseModes}

InitMouse ==
    /\ isViewerReady = TRUE
    /\ completeStateToRestore = None
    /\ pendingReloadUrl = None
    /\ srcdoc = "viewerA"
    /\ hostUp = TRUE
    /\ host \in MouseStartStates
    /\ toHost = <<>>
    /\ toBridge = <<>>
    /\ appFont = "F1"
    /\ calls = 0
    /\ curReadySeen = TRUE
    /\ byReload = FALSE
    /\ readyEffects = <<"onReadyCallback">>
    /\ lastCmd = NoCmd
    /\ hist = <<>>
    /\ base = None
    /\ VersionerIdle
    /\ fontDataHasChanged = TRUE
    /\ viewerState = InitialViewerState

MouseStep(name, e, h) ==
    /\ hostUp
    /\ host' = h
    /\ lastCmd' = Msg(name, e)
    /\ UNCHANGED <<bridgeVars, srcdoc, hostUp, toHost, toBridge, appFont, readyHist,
                   testHist>>

MouseDown ==
    /\ ~host.isMouseDown
    /\ \E e \in MouseEvents : MouseStep("mousedown", e, onMouseDown(host, e))
    /\ UNCHANGED calls

MouseMove ==
    /\ host.isMouseDown       \* the listener is attached by onMouseDown
    /\ calls < MaxMouseMoves
    /\ calls' = calls + 1
    /\ \E e \in MouseEvents : MouseStep("mousemove", e, onMouseMove(host, e))

MouseUp ==
    /\ host.isMouseDown
    /\ MouseStep("mouseup", NoArgs, onMouseUp(host))
    /\ UNCHANGED calls

NextMouse ==
    \/ MouseDown
    \/ MouseMove
    \/ MouseUp

SpecMouse == InitMouse /\ [][NextMouse]_vars

---------------------------------------------------------------------------
(* Updates and the camera: the Host receives updates of every shape, a text  *)
(* without outlines among them, from a fresh or a restored view.             *)

FrameUpdateArgs ==
    {UpdateArgs(f, t, d, fr, rs, TRUE) :
        f \in {"F1", "F2"}, t \in {"n", Blank, ""}, d \in BOOLEAN, fr \in BOOLEAN,
        rs \in BOOLEAN}
    \cup {UpdateArgs(NoFont, t, TRUE, fr, FALSE, ch) :
             t \in {"n", Blank}, fr \in BOOLEAN, ch \in BOOLEAN}
    \cup {UpdateArgs(BadFont, "n", TRUE, TRUE, FALSE, TRUE)}

FrameCommands ==
    {Msg("update", a) : a \in FrameUpdateArgs} \cup {Msg("resetView", NoArgs)}

FrameStartStates ==
    {FreshHost}
    \cup {[handleFontDataForRestore(applyRestoredState(FreshHost, v), [fontData |-> "F1"])
             EXCEPT !.out = <<>>] : v \in HostRestoreStates}

InitFrame ==
    /\ isViewerReady = TRUE
    /\ completeStateToRestore = None
    /\ pendingReloadUrl = None
    /\ srcdoc = "viewerA"
    /\ hostUp = TRUE
    /\ host \in FrameStartStates
    /\ toHost = <<>>
    /\ toBridge = <<>>
    /\ appFont = "F1"
    /\ calls = 0
    /\ curReadySeen = TRUE
    /\ byReload = FALSE
    /\ readyEffects = <<"onReadyCallback">>
    /\ lastCmd = NoCmd
    /\ hist = <<>>
    /\ base = None
    /\ VersionerIdle
    /\ fontDataHasChanged = TRUE
    /\ viewerState = InitialViewerState

\* One command taken by the listener. The text without outlines is rendered over a
\* Pivot already placed: the baseline of an empty box is not a number of the model.
FrameCommand ==
    /\ \E m \in FrameCommands :
          /\ (m.command = "update" /\ m.args.text = Blank)
                => (~m.args.shouldResetPosition /\ ~host.isFirstRender)
          /\ HostStep(m)
    /\ UNCHANGED testHist

NextFrame == FrameCommand

SpecFrame == InitFrame /\ [][NextFrame]_vars

---------------------------------------------------------------------------
(* The wheel over a Host that has framed its text: the camera is on the Pivot's Z *)
(* axis and looks at the Pivot.                                                    *)

WheelEvents == {[deltaY |-> y] : y \in {-500, -100, 100}}

WheelStartStates ==
    {setMouseState(updateViewer(FreshHost, UpdateArgs("F1", "n", TRUE, TRUE, FALSE, TRUE)),
                   a) : a \in AllMouseModes}

InitWheel ==
    /\ isViewerReady = TRUE
    /\ completeStateToRestore = None
    /\ pendingReloadUrl = None
    /\ srcdoc = "viewerA"
    /\ hostUp = TRUE
    /\ host \in WheelStartStates
    /\ toHost = <<>>
    /\ toBridge = <<>>
    /\ appFont = "F1"
    /\ calls = 0
    /\ curReadySeen = TRUE
    /\ byReload = FALSE
    /\ readyEffects = <<"onReadyCallback">>
    /\ lastCmd = NoCmd
    /\ hist = <<>>
    /\ base = None
    /\ VersionerIdle
    /\ fontDataHasChanged = TRUE
    /\ viewerState = InitialViewerState

Wheel ==
    /\ calls < MaxWheelEvents
    /\ calls' = calls + 1
    /\ \E e \in WheelEvents : MouseStep("wheel", e, onWheel(host, e))

NextWheel == Wheel

SpecWheel == InitWheel /\ [][NextWheel]_vars

---------------------------------------------------------------------------
(* The versioner's document generator applied to an asset URL *)

MinorVersions == {73, 74, 80, 81, 132, 133, 147, 148}
PatchVersions == {0, 2, 3, 9, 10}

AssetVersions ==
    {Sem(0, b, c) : b \in MinorVersions, c \in PatchVersions}
    \cup {Sem(0, 158, 0), Sem(0, 150, 0), Sem(0, 137, 0), R(128), R(110), R(73), R(148),
          Bare(128), Bare(70), Sem2(0, 140)}

AssetUrls ==
    {AssetUrl(l, t, f) : l \in {"three@", "three.js/", ""},
                         t \in {Some(v) : v \in AssetVersions}
                               \cup {None, Some(Word("latest"))},
                         f \in allowedFiles}

\* The page before main.js installs the first document
ViewerNotLoaded ==
    /\ isViewerReady = FALSE
    /\ completeStateToRestore = None
    /\ pendingReloadUrl = None
    /\ srcdoc = NullDoc
    /\ hostUp = FALSE
    /\ host = FreshHost
    /\ toHost = <<>>
    /\ toBridge = <<>>
    /\ appFont = NoFont
    /\ calls = 0
    /\ curReadySeen = FALSE
    /\ byReload = FALSE
    /\ readyEffects = <<>>
    /\ lastCmd = NoCmd
    /\ hist = <<>>
    /\ base = None
    /\ fontDataHasChanged = TRUE
    /\ viewerState = InitialViewerState

viewerVars == <<bridgeVars, srcdoc, hostUp, host, toHost, toBridge, appFont, calls,
                readyHist, lastCmd, hist, base, fontDataHasChanged,
                viewerState>>

InitVersioner ==
    /\ ViewerNotLoaded
    /\ assetUrl \in AssetUrls
    /\ iframeHtml = None
    /\ rangeQuery = <<None, None, None>>
    /\ inRange = None
    /\ NormalizerIdle
    /\ LoaderIdle

generateInitialIframeHtml ==
    /\ iframeHtml = None
    /\ iframeHtml' = Some(_generateIframeHtml(assetUrl))
    /\ UNCHANGED <<viewerVars, assetUrl, rangeQuery, inRange, versionToken, normalized,
                   THREE, loaderConfig>>

NextVersioner == generateInitialIframeHtml

SpecVersioner == InitVersioner /\ [][NextVersioner]_vars

---------------------------------------------------------------------------
(* The range check applied to a version and two range ends *)

RangeVersions ==
    {Sem(a, b, c) : a \in {0, 1}, b \in {80, 81, 132}, c \in {0, 2, 9}}
    \cup {R(128), R(81), Bare(128), Bare(80), Sem2(0, 81)}

InitRange ==
    /\ ViewerNotLoaded
    /\ assetUrl = default_threejs_version_url
    /\ iframeHtml = None
    /\ rangeQuery \in ({Some(v) : v \in RangeVersions} \cup {None})
                      \X {Some(v) : v \in RangeVersions}
                      \X {Some(v) : v \in RangeVersions}
    /\ inRange = None
    /\ NormalizerIdle
    /\ LoaderIdle

CheckVersionInRange ==
    /\ inRange = None
    /\ inRange' = Some(_isVersionInRange(rangeQuery[1], rangeQuery[2], rangeQuery[3]))
    /\ UNCHANGED <<viewerVars, assetUrl, iframeHtml, rangeQuery, versionToken, normalized,
                   THREE, loaderConfig>>

NextRange == CheckVersionInRange

SpecRange == InitRange /\ [][NextRange]_vars

---------------------------------------------------------------------------
(* The normalizer applied to a token, and again to its own result *)

RECURSIVE PartsOfLength(_)
PartsOfLength(n) ==
    IF n = 0 THEN {<<>>}
    ELSE {Append(q, x) : q \in PartsOfLength(n - 1), x \in {0, 81, 128}}

\* "", "128", "r128", "0.81", "r128.0", "0.128.0", ... and words
Tokens ==
    {VersionString(FALSE, q, "") : q \in UNION {PartsOfLength(n) : n \in 0..MaxTokenParts}}
    \cup {VersionString(TRUE, q, "") : q \in UNION {PartsOfLength(n) : n \in 1..MaxTokenParts}}
    \cup {Word("latest"), Word("beta")}

InitNormalize ==
    /\ ViewerNotLoaded
    /\ assetUrl = default_threejs_version_url
    /\ iframeHtml = None
    /\ rangeQuery = <<None, None, None>>
    /\ inRange = None
    /\ versionToken \in {Some(v) : v \in Tokens} \cup {None}
    /\ normalized = <<>>
    /\ LoaderIdle

\* _normalizeVersion(token), then _normalizeVersion of what it returned
NormalizeVersion ==
    /\ Len(normalized) < 2
    /\ normalized' = Append(normalized,
                            _normalizeVersion(IF normalized = <<>> THEN versionToken
                                              ELSE Some(normalized[Len(normalized)])))
    /\ UNCHANGED <<viewerVars, assetUrl, iframeHtml, rangeQuery, inRange, versionToken,
                   THREE, loaderConfig>>

NextNormalize == NormalizeVersion

SpecNormalize == InitNormalize /\ [][NextNormalize]_vars

---------------------------------------------------------------------------
(* The loaders: from THREE.REVISION to the config handed to initViewer *)

\* THREE.REVISION: leading digits (None when there are none) and what follows them
RevisionString(number, suffix) == [number |-> number, suffix |-> suffix]

\* parseInt(THREE.REVISION, 10) || 0: NaN and 0 both give 0
RevisionOf(three) ==
    IF three.REVISION.number = None THEN 0 ELSE The(three.REVISION.number)

\* viewer-legacy.js: the config object
legacyConfig(revision) ==
    [useDepthProperty |-> revision >= 162,
     useManualCenter |-> revision < 81,
     useManualBoxSize |-> revision < 81]

\* A module loader that never centers by hand
moduleConfigNeverManual(revision) ==
    [useDepthProperty |-> revision >= 162,
     useManualCenter |-> FALSE,
     useManualBoxSize |-> revision < 81]

\* viewer-module.js: the config object
moduleConfig(revision) ==
    [useDepthProperty |-> revision >= 162,
     useManualCenter |-> revision < 81,
     useManualBoxSize |-> revision < 81]

InitLoader ==
    /\ ViewerNotLoaded
    /\ assetUrl = default_threejs_version_url
    /\ iframeHtml = None
    /\ rangeQuery = <<None, None, None>>
    /\ inRange = None
    /\ NormalizerIdle
    /\ THREE \in [REVISION : {RevisionString(n, x) :
                                 n \in {Some(i) : i \in 0..MaxRevision} \cup {None},
                                 x \in {"", "dev"}},
                  TextGeometry : BOOLEAN]
    /\ loaderConfig = [legacy |-> None, module |-> None]

\* viewer-legacy.js: aborts when the addon of a revision from 133 on is missing
LegacyLoader ==
    /\ loaderConfig.legacy = None
    /\ ~(~THREE.TextGeometry /\ RevisionOf(THREE) >= 133)
    /\ loaderConfig' = [loaderConfig EXCEPT !.legacy = Some(legacyConfig(RevisionOf(THREE)))]
    /\ UNCHANGED <<viewerVars, assetUrl, iframeHtml, rangeQuery, inRange, versionToken,
                   normalized, THREE>>

\* viewer-module.js
ModuleLoader ==
    /\ loaderConfig.module = None
    /\ loaderConfig' = [loaderConfig EXCEPT !.module = Some(moduleConfig(RevisionOf(THREE)))]
    /\ UNCHANGED <<viewerVars, assetUrl, iframeHtml, rangeQuery, inRange, versionToken,
                   normalized, THREE>>

NextLoader ==
    \/ LegacyLoader
    \/ ModuleLoader

SpecLoader == InitLoader /\ [][NextLoader]_vars

---------------------------------------------------------------------------
(* The start of a Render Host: a loader calls initViewer, and a call of initScene *)
(* into the library or the browser may throw.                                     *)

\* The step of initScene that throws, 0 when none does
InitFaults == 0..Len(InitSteps)

\* initViewer: initScene() catches what it throws and reports it; then
\* setupMessageListener() registers the listener and posts 'ready'.
initViewer(fault) ==
    LET k == IF fault = 0 THEN Len(InitSteps) + 1 ELSE fault
        h == [FreshHost EXCEPT !.built = BuiltBefore(k)]
    IN  [(IF fault = 0 THEN h ELSE reportErrorToParent(h))
            EXCEPT !.out = Append(@, [command |-> "ready"])]

BootRevisions == {Some(80), Some(133), Some(MaxRevision), None}

InitBoot ==
    /\ isViewerReady = FALSE
    /\ completeStateToRestore = None
    /\ pendingReloadUrl = None
    /\ srcdoc = "viewerA"
    /\ hostUp = FALSE
    /\ host = FreshHost
    /\ toHost = <<>>
    /\ toBridge = <<>>
    /\ appFont = NoFont
    /\ calls = 0
    /\ curReadySeen = FALSE
    /\ byReload = FALSE
    /\ readyEffects = <<>>
    /\ lastCmd = NoCmd
    /\ hist = <<>>
    /\ base = None
    /\ fontDataHasChanged = TRUE
    /\ viewerState = InitialViewerState
    /\ assetUrl = default_threejs_version_url
    /\ iframeHtml = None
    /\ rangeQuery = <<None, None, None>>
    /\ inRange = None
    /\ NormalizerIdle
    /\ THREE \in [REVISION : {RevisionString(n, x) : n \in BootRevisions, x \in {"", "dev"}},
                  TextGeometry : BOOLEAN]
    /\ loaderConfig = [legacy |-> None, module |-> None]

\* core.initViewer(dependencies, config) of a loader
BootWith(fault) ==
    /\ ~hostUp
    /\ hostUp' = TRUE
    /\ host' = Settled(initViewer(fault))
    /\ toBridge' = Stamp(initViewer(fault).out)
    /\ lastCmd' = Msg("initViewer", [fault |-> fault])
    /\ UNCHANGED <<bridgeVars, srcdoc, toHost, appFont, calls, readyHist, hist, base,
                   assetUrl, iframeHtml, rangeQuery, inRange, versionToken, normalized,
                   THREE, fontDataHasChanged, viewerState>>

\* viewer-legacy.js, to the end
LegacyBoot ==
    /\ ~(~THREE.TextGeometry /\ RevisionOf(THREE) >= 133)
    /\ \E fault \in InitFaults : BootWith(fault)
    /\ loaderConfig' = [loaderConfig EXCEPT !.legacy = Some(legacyConfig(RevisionOf(THREE)))]

\* viewer-module.js, to the end
ModuleBoot ==
    /\ \E fault \in InitFaults : BootWith(fault)
    /\ loaderConfig' = [loaderConfig EXCEPT !.module = Some(moduleConfig(RevisionOf(THREE)))]

NextBoot ==
    \/ LegacyBoot
    \/ ModuleBoot

SpecBoot == InitBoot /\ [][NextBoot]_vars

---------------------------------------------------------------------------
(* Properties of the Bridge *)

\* A step in which the Bridge posts a message to iframe.contentWindow.
Posted == Len(toHost') > Len(toHost)

LastPosted == toHost'[Len(toHost')]

\* A step in which the Bridge's listener handles an event of the given kind.
Handles(command) ==
    /\ toBridge # <<>>
    /\ Head(toBridge).ev.command = command
    /\ Len(toBridge') = Len(toBridge) - 1

\* C1 (readiness gating): a command wrapper called while the Bridge has not handled
\* the 'ready' of the Host now installed posts nothing to it; the only message that
\* may be posted then is the requestViewerState of requestAndReload, and handling
\* 'ready' posts nothing but the restoreState of the stored snapshot.
C1_ReadinessGating ==
    [][/\ (Posted /\ ~curReadySeen') => LastPosted.command = "requestViewerState"
       /\ (Posted /\ Handles("ready")) =>
             /\ completeStateToRestore # None
             /\ LastPosted = Msg("restoreState", The(completeStateToRestore))]_vars

\* C2 (reload window): from the step that replaces the document on
\* viewerStateResponse to the step that sends restoreState on 'ready', that is while
\* the combined snapshot is stored, the Bridge posts nothing.
C2_NoPostInReloadWindow ==
    [][(completeStateToRestore # None /\ completeStateToRestore' # None) => ~Posted]_vars

\* C3 (restore on ready): handling the first 'ready' of the installed Host, when the
\* reload protocol installed it, posts restoreState with the combined snapshot before
\* the ready callback runs and clears the snapshot; handling any other 'ready' (the
\* first one of the application, a later one, one of a replaced Host) posts nothing.
C3_RestoreOnReady ==
    [][Handles("ready") =>
         IF byReload /\ ~Head(toBridge).stale /\ ~curReadySeen
         THEN /\ completeStateToRestore # None
              /\ toHost' = Append(toHost, Msg("restoreState", The(completeStateToRestore)))
              /\ readyEffects' = <<"restoreState", "onReadyCallback">>
              /\ completeStateToRestore' = None
         ELSE toHost' = toHost]_vars

\* C4 (installed document): handling viewerStateResponse installs the document that
\* requestAndReload stored, and one is stored.
C4_InstallsPendingDocument ==
    [][Handles("viewerStateResponse") =>
         /\ pendingReloadUrl # None
         /\ srcdoc' = The(pendingReloadUrl)
         /\ srcdoc' \in BootstrapDocs]_vars

\* C7 (recovery): once the explanatory page is installed, a requestAndReload of a
\* supported document d leads to d installed and 'ready' handled, unless a later
\* requestAndReload names another document.
C7_RecoversFromInfoPage ==
    \A d \in ViewerDocs :
        (srcdoc = InfoDoc /\ pendingReloadUrl = Some(d))
            ~> \/ srcdoc = d /\ isViewerReady
               \/ pendingReloadUrl \notin {None, Some(d)}

---------------------------------------------------------------------------
(* Properties of the Render Host *)

\* C5: reload round trip. A fresh Host whose first command is restoreState(V),
\* followed by fontDataForRestore when V has text, ends with the camera position
\* and rotation and the Pivot position and rotation of V.
C5_ReloadRoundTrip ==
    (/\ base # None
     /\ \/ hist = <<"restoreState", "fontDataForRestore">>
        \/ hist = <<"restoreState">> /\ The(base).text = "")
    => /\ host.cameraPos = The(The(base).cameraState).position
       /\ host.cameraRot = The(The(base).cameraState).rotation
       /\ host.pivotPos = The(The(base).pivotState).position
       /\ host.pivotRot = The(The(base).pivotState).rotation

\* The listener has handled the command c in this step.
Handled(c) == calls' = calls + 1 /\ lastCmd'.command = c

Posts(events) == toBridge' = Stamp(events)

\* The geometry of the TextMesh of h, if it has one
MeshGeometry(h) == IF h.textMesh = None THEN None ELSE Some(The(h.textMesh).geometry)

\* C6: two-phase restore. restoreState with text posts one requestFontDataForRestore,
\* keeps the state pending and builds no TextMesh; restoreState without text posts
\* nothing. fontDataForRestore with a pending state renders the pending text with the
\* pending is3D flag, leaves the camera where it is (no framing), leaves the Pivot's
\* rotation, X and Z where they are (no position reset) and empties the pending slot;
\* with an empty slot it changes nothing.
C6_TwoPhaseRestore ==
    [][/\ Handled("restoreState") =>
            /\ MeshGeometry(host') = MeshGeometry(host)
            /\ host'.pivotChildren = host.pivotChildren
            /\ IF lastCmd'.args.text # ""
               THEN /\ Posts(<<[command |-> "requestFontDataForRestore"]>>)
                    /\ host'.pendingStateRestore = Some(lastCmd'.args)
               ELSE /\ Posts(<<>>)
                    /\ host'.pendingStateRestore = host.pendingStateRestore
       /\ Handled("fontDataForRestore") =>
            IF host.pendingStateRestore # None
            THEN /\ host'.pendingStateRestore = None
                 /\ host'.cameraPos = host.cameraPos
                 /\ host'.cameraRot = host.cameraRot
                 /\ host'.pivotRot = host.pivotRot
                 /\ host'.pivotPos[1] = host.pivotPos[1]
                 /\ host'.pivotPos[3] = host.pivotPos[3]
                 /\ lastCmd'.args.fontData \in {"F1", "F2"} =>
                       /\ host'.textMesh # None
                       /\ The(host'.textMesh).geometry.text
                             = The(host.pendingStateRestore).text
                       /\ The(host'.textMesh).geometry.is3D
                             = The(host.pendingStateRestore).is3D
                       /\ host'.is3D = The(host.pendingStateRestore).is3D
                       /\ Posts(<<>>)
            ELSE /\ host' = host
                 /\ Posts(<<>>)]_vars

\* A restored flat text has been rendered by the font data that followed.
C6_Witness ==
    /\ lastCmd.command = "fontDataForRestore"
    /\ calls = 2
    /\ host.cameraPos = <<4, 2, 9>>
    /\ host.pendingStateRestore = None
    /\ host.textMesh # None
    /\ ~The(host.textMesh).geometry.is3D

\* C8: wireframe symmetry. setWireframe(true) and then setWireframe(false) give
\* back the transforms, toggle flags, material name and wireframe flag of the state
\* before the activation.
C8_WireframeSymmetry ==
    (/\ Count(hist, "on") = 1
     /\ hist[Len(hist)] = "off")
    => ViewOf(host) = The(base)

\* C9: activation is idempotent. setWireframe(true) twice and then
\* setWireframe(false) give back the state before the first activation.
C9_ActivationIdempotent ==
    (/\ Count(hist, "on") = 2
     /\ hist[Len(hist)] = "off")
    => ViewOf(host) = The(base)

\* C10: the Pivot has at most one TextMesh child and at most one
\* BoundingBoxHelper child.
C10_AtMostOneMesh ==
    /\ Count(host.pivotChildren, "TextMesh") <= 1
    /\ Count(host.pivotChildren, "BoundingBoxHelper") <= 1

\* A text rendered over a text rendered before it, with the bounding box shown.
C10_Witness ==
    /\ calls = 3
    /\ lastCmd.command = "update"
    /\ host.currentFontData = "F2"
    /\ Count(host.pivotChildren, "TextMesh") = 1
    /\ Count(host.pivotChildren, "BoundingBoxHelper") = 1
    /\ The(host.boundingBoxHelper).height = GeomHeight(The(host.textMesh).geometry)

---------------------------------------------------------------------------
(* Properties of the Render Host when an update is empty or fails *)

NoMeshChildren(h) ==
    /\ h.textMesh = None
    /\ h.boundingBoxHelper = None
    /\ h.pivotChildren = <<>>

PostsReportError ==
    \E i \in 1..Len(toBridge') : toBridge'[i].ev.command = "reportError"

\* C11: an update whose text is empty leaves the Pivot without TextMesh and without
\* BoundingBoxHelper, whatever the state before and the other fields of the command.
C11_EmptyTextUpdate ==
    [][(Handled("update") /\ lastCmd'.args.text = "") => NoMeshChildren(host')]_vars

\* C12: an update in which an exception is raised after the old mesh was destroyed
\* posts reportError and leaves the Pivot without TextMesh and without
\* BoundingBoxHelper.
C12_UpdateFailure ==
    [][(Handled("update") /\ hist' = <<"threw">>)
          => (PostsReportError /\ NoMeshChildren(host'))]_vars

---------------------------------------------------------------------------
(* Properties of the mouse controls *)

Dragged == calls' = calls + 1 /\ lastCmd'.command = "mousemove"

DragMoved == <<lastCmd'.args.clientX, lastCmd'.args.clientY>>
                 # <<host.lastMouseX, host.lastMouseY>>

SameCamera == host'.cameraPos = host.cameraPos /\ host'.cameraRot = host.cameraRot
SamePivotPos == host'.pivotPos = host.pivotPos
SamePivotRot == host'.pivotRot = host.pivotRot

\* C14: one drag-move event applies the behaviour of the first enabled flag in the
\* order rotate-object, pan, move-object, rotate-camera, and only that one:
\* rotate-object turns the Pivot, pan moves the camera, move-object moves the Pivot,
\* rotate-camera moves and turns the camera; with no flag nothing moves.
C14_MouseModePriority ==
    [][Dragged =>
          IF host.rotateObjectEnabled
          THEN SameCamera /\ SamePivotPos /\ (DragMoved => ~SamePivotRot)
          ELSE IF host.panEnabled
          THEN /\ SamePivotPos /\ SamePivotRot /\ host'.cameraRot = host.cameraRot
               /\ DragMoved => host'.cameraPos # host.cameraPos
          ELSE IF host.moveObjectEnabled
          THEN SameCamera /\ SamePivotRot /\ (DragMoved => ~SamePivotPos)
          ELSE IF host.rotateCameraEnabled
          THEN /\ SamePivotPos /\ SamePivotRot
               /\ DragMoved => host'.cameraPos # host.cameraPos
          ELSE SameCamera /\ SamePivotPos /\ SamePivotRot]_vars

\* With every flag set, a drag has turned the Pivot and left the camera where it was.
C14_Witness ==
    /\ lastCmd.command = "mousemove"
    /\ host.rotateObjectEnabled /\ host.panEnabled
    /\ host.moveObjectEnabled /\ host.rotateCameraEnabled
    /\ host.pivotRot # Zero3
    /\ host.cameraPos = <<0, 7, 25>>

---------------------------------------------------------------------------
(* The ready handshake *)

\* The events a step appends to the parent's queue
NewEvents ==
    IF Len(toBridge') > Len(toBridge)
    THEN SubSeq(toBridge', Len(toBridge) + 1, Len(toBridge'))
    ELSE <<>>

ReadiesPosted == Cardinality({i \in 1..Len(NewEvents) : NewEvents[i].ev.command = "ready"})

\* initViewer runs in a freshly loaded document
HostInstantiated == ~hostUp /\ hostUp'

\* C15: a Host posts 'ready' once, in the step that instantiates it and leaves its
\* listener registered, and at no other time; while the Bridge has observed the 'ready'
\* of the Host in the iframe, that Host's listener is registered, and a command taken
\* from the window's queue is taken by the listener, which handles it.
C15_ReadyHandshake ==
    [][/\ ReadiesPosted = (IF HostInstantiated THEN 1 ELSE 0)
       /\ ReadiesPosted > 0 => hostUp'
       /\ curReadySeen' => hostUp'
       /\ (curReadySeen /\ curReadySeen' /\ Len(toHost') < Len(toHost)) =>
             /\ lastCmd' = Head(toHost)
             /\ host' = Settled(HostDispatch(host, Head(toHost)))]_vars

C15_Witness ==
    /\ curReadySeen /\ ~byReload /\ hostUp
    /\ lastCmd.command = "update"
    /\ host.textMesh # None

---------------------------------------------------------------------------
(* Properties of the versioner *)

\* The forms a version is published in: "a.b.c", "r<N>" and "<N>"
PublishedForm(v) ==
    /\ v.word = ""
    /\ \/ ~v.r /\ Len(v.parts) \in {1, 3}
       \/ v.r /\ Len(v.parts) = 1

\* The (major, minor, patch) triple a published version stands for
TripleOf(v) == IF Len(v.parts) = 3 THEN v.parts ELSE <<0, v.parts[1], 0>>

LexLess(a, b) == \E i \in 1..3 : a[i] < b[i] /\ \A j \in 1..(i - 1) : a[j] = b[j]
LexLeq(a, b) == a = b \/ LexLess(a, b)

\* The generated document of an asset URL whose version is in a published form
GeneratedFor(isModule) ==
    /\ iframeHtml # None
    /\ IncludesModule(assetUrl) = isModule
    /\ _extractVersion(assetUrl) # None
    /\ PublishedForm(The(_extractVersion(assetUrl)))

AssetTriple == TripleOf(The(_extractVersion(assetUrl)))

EntryScript(d) == d.scripts[Len(d.scripts)]
AddonScripts(d) == SubSeq(d.scripts, 2, Len(d.scripts) - 1)

\* C16: for a classic asset URL, a version below 0.74.0 gives the 'not supported' page;
\* 0.74.0 to 0.132.2 gives a document with the core script and no addon script; 0.133.0
\* to 0.147.0 gives the core script and the FontLoader and TextGeometry addon scripts
\* of the asset's normalized version; 0.148.0 and above gives the 'incompatibility' page.
C16_ClassicBranches ==
    GeneratedFor(FALSE) =>
        LET d == The(iframeHtml)
            t == AssetTriple
        IN /\ LexLess(t, <<0, 74, 0>>) =>
                 (d.kind = "info" /\ d.title[1] = "Version Not Supported")
           /\ (LexLeq(<<0, 74, 0>>, t) /\ LexLeq(t, <<0, 132, 2>>)) =>
                 /\ d.kind = "classic"
                 /\ d.scripts[1] = Script("classic", assetUrl)
                 /\ AddonScripts(d) = <<>>
           /\ (LexLeq(<<0, 133, 0>>, t) /\ LexLeq(t, <<0, 147, 0>>)) =>
                 /\ d.kind = "classic"
                 /\ d.scripts[1] = Script("classic", assetUrl)
                 /\ AddonScripts(d) =
                      <<Script("classic", Jsdelivr(Sem(t[1], t[2], t[3]),
                                                   "examples/js/loaders/FontLoader.js")),
                        Script("classic", Jsdelivr(Sem(t[1], t[2], t[3]),
                                                   "examples/js/geometries/TextGeometry.js"))>>
           /\ LexLeq(<<0, 148, 0>>, t) =>
                 (d.kind = "info" /\ d.title[1] = "Version Incompatibility")

\* C17: for an asset URL of a version below 0.74.0, classic or module, the generated
\* document is the static explanatory page: no script element at all.
C17_TooOldIsStatic ==
    (\E isModule \in BOOLEAN : GeneratedFor(isModule) /\ LexLess(AssetTriple, <<0, 74, 0>>))
        => (The(iframeHtml).kind = "info" /\ The(iframeHtml).scripts = <<>>)

\* C18: for a module asset URL the import map maps 'three' to the asset URL itself and
\* 'three/addons/' to the base path of version normalizeVersion(extractVersion(url)),
\* and the document's entry script is of type module.
C18_ModuleImportMap ==
    (iframeHtml # None /\ IncludesModule(assetUrl)) =>
        LET d == The(iframeHtml) IN
        /\ d.imports # None
        /\ The(d.imports).three = assetUrl
        /\ The(d.imports).addons.version = _normalizeVersion(_extractVersion(assetUrl))
        /\ EntryScript(d).type = "module"

\* C19: generation returns a document for every asset URL, with or without a version
\* token: a viewer whose last script loads the Render Host, or an explanatory page
\* with a title and no script.
C19_GenerationTotal ==
    iframeHtml # None =>
        LET d == The(iframeHtml) IN
        \/ /\ d.kind = "classic"
           /\ EntryScript(d) = Script("classic", LocalFile("viewer/viewer-legacy.js"))
        \/ /\ d.kind = "module"
           /\ EntryScript(d) = Script("module", LocalFile("viewer/viewer-module.js"))
        \/ /\ d.kind = "info"
           /\ d.scripts = <<>>
           /\ d.title[1] \in {"Version Not Supported", "Version Incompatibility"}

C19_Witness ==
    /\ iframeHtml # None
    /\ _extractVersion(assetUrl) = None
    /\ assetUrl.lead = ""
    /\ The(iframeHtml).kind = "info"
    /\ The(iframeHtml).title = <<"Version Not Supported", None>>

\* C20: for versions in the published forms, _isVersionInRange is true exactly when the
\* triple of the version lies between the triples of the two ends, ends included, in
\* lexicographic order; the three quoted calls return true, false and true.
C20_RangeCheck ==
    inRange # None =>
        /\ (\A i \in 1..3 : rangeQuery[i] # None /\ PublishedForm(The(rangeQuery[i]))) =>
              The(inRange) = (/\ LexLeq(TripleOf(The(rangeQuery[2])), TripleOf(The(rangeQuery[1])))
                              /\ LexLeq(TripleOf(The(rangeQuery[1])), TripleOf(The(rangeQuery[3]))))
        /\ rangeQuery = <<Some(Sem(0, 81, 0)), Some(Sem(0, 81, 0)), Some(Sem(0, 132, 2))>>
              => The(inRange) = TRUE
        /\ rangeQuery = <<Some(Sem(0, 80, 9)), Some(Sem(0, 81, 0)), Some(Sem(0, 132, 2))>>
              => The(inRange) = FALSE
        /\ rangeQuery = <<Some(R(128)), Some(Sem(0, 81, 0)), Some(Sem(0, 132, 2))>>
              => The(inRange) = TRUE

C20_Witness ==
    /\ rangeQuery = <<Some(R(128)), Some(Sem(0, 81, 0)), Some(Sem(0, 132, 2))>>
    /\ inRange = Some(TRUE)

\* C21: normalizing the result of a normalization returns it unchanged, whatever the
\* token was: semantic, r-prefixed, a bare number, the empty string or absent.
C21_NormalizeIdempotent ==
    Len(normalized) = 2 => normalized[2] = normalized[1]

C21_Witness ==
    /\ versionToken = Some(R(128))
    /\ normalized = <<Sem(0, 128, 0), Sem(0, 128, 0)>>

---------------------------------------------------------------------------
(* Properties of the loaders *)

ProfileFlags == {"useDepthProperty", "useManualCenter", "useManualBoxSize"}

\* The flags in which two configs differ
Flipped(c1, c2) == {f \in ProfileFlags : c1[f] # c2[f]}

\* The config a loader derives for a revision
DerivedBy(loader, revision) ==
    IF loader = "legacy" THEN legacyConfig(revision) ELSE moduleConfig(revision)

---------------------------------------------------------------------------
(* Properties of the reload protocol *)

\* The Bridge's reload phase, read off its two slots
ReloadPhase(pending, combined) ==
    IF pending # None /\ combined # None THEN "Overlap"
    ELSE IF pending # None THEN "AwaitingState"
    ELSE IF combined # None THEN "AwaitingReady"
    ELSE "Idle"

\* A step a Bridge following the reload protocol may take
ProtocolStep ==
    LET step == <<ReloadPhase(pendingReloadUrl, completeStateToRestore),
                  ReloadPhase(pendingReloadUrl', completeStateToRestore')>>
    IN step \in {<<"Idle", "Idle">>, <<"Idle", "AwaitingState">>,
                 <<"AwaitingState", "AwaitingState">>, <<"AwaitingState", "AwaitingReady">>,
                 <<"AwaitingReady", "AwaitingReady">>, <<"AwaitingReady", "Idle">>}

\* C23: the reload phase moves only Idle -> AwaitingState -> AwaitingReady -> Idle, and
\* the pending-document slot and the combined-snapshot slot are never both non-empty.
C23_ReloadPhases == [][ProtocolStep]_vars

\* The Host answers a requestViewerState
AnswersStateRequest ==
    /\ hostUp /\ toHost # <<>> /\ Head(toHost).command = "requestViewerState"
    /\ toHost' = Tail(toHost)
    /\ Len(toBridge') = Len(toBridge) + 1

\* The Bridge takes a viewerStateResponse
MergesStateResponse ==
    /\ toBridge # <<>> /\ Head(toBridge).ev.command = "viewerStateResponse"
    /\ Len(toBridge') = Len(toBridge) - 1

\* C24: the Host's answer carries the parentState of the request it answers and the
\* Host's camera and Pivot transforms; the snapshot the Bridge builds from an answer
\* holds every field of that parentState unchanged, plus cameraState and pivotState
\* as reported, and no other field.
C24_CombinedSnapshot ==
    [][/\ AnswersStateRequest =>
             LET r == toBridge'[Len(toBridge')].ev IN
             /\ r.command = "viewerStateResponse"
             /\ r.payload.parentState = Head(toHost).args.parentState
             /\ r.state.cameraState = [position |-> host.cameraPos, rotation |-> host.cameraRot]
             /\ r.state.pivotState = [position |-> host.pivotPos, rotation |-> host.pivotRot]
       /\ MergesStateResponse =>
             LET e == Head(toBridge).ev
                 c == The(completeStateToRestore')
             IN /\ completeStateToRestore' # None
                /\ DOMAIN c = (DOMAIN e.payload.parentState) \cup {"cameraState", "pivotState"}
                /\ \A f \in (DOMAIN e.payload.parentState) \ {"cameraState", "pivotState"} :
                      c[f] = e.payload.parentState[f]
                /\ c.cameraState = Some(e.state.cameraState)
                /\ c.pivotState = Some(e.state.pivotState)]_vars

C24_Witness ==
    /\ completeStateToRestore # None
    /\ The(completeStateToRestore).text = "n"
    /\ The(completeStateToRestore).cameraState
          = Some([position |-> <<0, 7, 25>>, rotation |-> <<-3, 0, 0>>])
    /\ ~isViewerReady

---------------------------------------------------------------------------
(* Properties of a restore *)

\* The name of the material a Host renders with
MaterialNameOf(h) ==
    IF h.isWireframe THEN "Wireframe" ELSE FindMaterialKey(h.currentMaterialConstructor)

\* C25: once a fresh Host has processed restoreState(V), its mouse flags, grid
\* visibility, rotation animation, bounding-box visibility, colour, alpha and material
\* name are those of V.
C25_RestoredToggles ==
    hist = <<"restoreState">> =>
        LET V == The(base) IN
        /\ host.panEnabled = V.panEnabled
        /\ host.zoomEnabled = V.zoomEnabled
        /\ host.rotateObjectEnabled = V.rotateObjectEnabled
        /\ host.moveObjectEnabled = V.moveObjectEnabled
        /\ host.rotateCameraEnabled = V.rotateCameraEnabled
        /\ host.gridVisible = V.gridVisible
        /\ host.rotationEnabled = V.rotationEnabled
        /\ host.isBoundingBoxVisible = V.isBoundingBoxVisible
        /\ host.currentColor = V.currentColor
        /\ host.currentAlpha = V.currentAlpha
        /\ MaterialNameOf(host) = V.currentMaterialName

\* The Bridge takes the Host's request for font data and has none to give
FontRequestUnanswerable ==
    /\ toBridge # <<>> /\ Head(toBridge).ev.command = "requestFontDataForRestore"
    /\ Len(toBridge') = Len(toBridge) - 1
    /\ appFont = NoFont

\* The listener of a Host whose restore is pending takes a command that is neither a
\* restore nor the font data it waits for
StalledHostTakes ==
    /\ hostUp /\ host.pendingStateRestore # None
    /\ toHost # <<>> /\ toHost' = Tail(toHost) /\ hostUp'
    /\ Head(toHost).command \notin {"restoreState", "fontDataForRestore"}

\* C26: with no font data to supply the Bridge posts nothing to the Host and the Host
\* posts no reportError for it; a stalled Host keeps its pending restore, and handles
\* any other command as a Host without pending restore would, posting the same events.
C26_RestoreStall ==
    [][/\ (/\ hostUp /\ toHost # <<>> /\ toHost' = Tail(toHost) /\ hostUp'
           /\ Head(toHost).command = "restoreState" /\ Head(toHost).args.text # "") =>
             /\ host'.pendingStateRestore = Some(Head(toHost).args)
             /\ NewEvents = Stamp(<<[command |-> "requestFontDataForRestore"]>>)
       /\ FontRequestUnanswerable =>
             (toHost' = toHost /\ host' = host /\ toBridge' = Tail(toBridge))
       /\ StalledHostTakes =>
             LET m == Head(toHost)
                 free == HostDispatch([host EXCEPT !.pendingStateRestore = None], m)
             IN /\ host'.pendingStateRestore = host.pendingStateRestore
                /\ host' = Settled([free EXCEPT
                                      !.pendingStateRestore = host.pendingStateRestore])
                /\ toBridge' = toBridge \o Stamp(free.out)]_vars

C26_Witness ==
    /\ hostUp /\ host.pendingStateRestore # None
    /\ appFont = NoFont
    /\ toBridge = <<>> /\ toHost = <<>>
    /\ lastCmd.command = "setColor"
    /\ host.currentColor = "#ff0000"

---------------------------------------------------------------------------
(* Properties of the wireframe mode's deferred framing *)

\* C27: after one activation, its deactivation and every frameObject callback the
\* activation scheduled, in whichever order the callback and the deactivation came,
\* the camera is where it was before the activation.
C27_DeferredFraming ==
    (/\ Count(hist, "on") = 1
     /\ Count(hist, "off") = 1
     /\ host.frameCallbacks = 0)
    => (/\ host.cameraPos = The(base).cameraPos
        /\ host.cameraRot = The(base).cameraRot)

\* The geometries and materials held by the live TextMesh and BoundingBoxHelper
ReferencedResources(h) ==
    [NoResource EXCEPT !.meshGeometry = (h.textMesh # None),
                       !.meshMaterial = (h.textMesh # None),
                       !.edgesGeometry = (h.boundingBoxHelper # None),
                       !.lineMaterial = (h.boundingBoxHelper # None)]

\* C28: between commands, every geometry and every material the Host has created and
\* not disposed is one held by the live TextMesh or BoundingBoxHelper, and the Pivot
\* holds at most one TextMesh and one BoundingBoxHelper (a new one is attached only
\* once the previous one was removed and disposed).
C28_NoUndisposedResource ==
    /\ host.undisposed = ReferencedResources(host)
    /\ Count(host.pivotChildren, "TextMesh") <= 1
    /\ Count(host.pivotChildren, "BoundingBoxHelper") <= 1

\* An update handled with fontHasChanged = true and no fontData
RejectedUpdate(m) ==
    m.command = "update" /\ m.args.fontHasChanged /\ m.args.fontData = NoFont

\* C29: an update with fontHasChanged = true and no fontData posts exactly one
\* reportError and leaves the cached font, the current text, the TextMesh, the
\* BoundingBoxHelper, the is3D flag and the camera and Pivot transforms as they were.
C29_SyncErrorRejected ==
    [][(calls' = calls + 1 /\ RejectedUpdate(lastCmd')) =>
          /\ Posts(<<[command |-> "reportError"]>>)
          /\ host'.currentFontData = host.currentFontData
          /\ host'.currentText = host.currentText
          /\ host'.textMesh = host.textMesh
          /\ host'.boundingBoxHelper = host.boundingBoxHelper
          /\ host'.pivotChildren = host.pivotChildren
          /\ host'.is3D = host.is3D
          /\ host'.cameraPos = host.cameraPos /\ host'.cameraRot = host.cameraRot
          /\ host'.pivotPos = host.pivotPos /\ host'.pivotRot = host.pivotRot]_vars

\* A Host showing a text and its bounding box has rejected such an update.
C29_Witness ==
    /\ RejectedUpdate(lastCmd)
    /\ toBridge = Stamp(<<[command |-> "reportError"]>>)
    /\ host.textMesh # None
    /\ host.boundingBoxHelper # None
    /\ host.currentFontData = "F1"

\* The step is an update that has built a TextMesh
ProducesMesh ==
    /\ Handled("update")
    /\ ~RejectedUpdate(lastCmd')
    /\ host'.textMesh # None

\* C30: an update without shouldResetPosition that is not the first successful render
\* leaves the Pivot's position and rotation as they were; an update with
\* shouldResetPosition that builds a mesh sets the Pivot's rotation to zero, its X and Z
\* to 0 and its Y to the baseline offset (half the height of the geometry's box: its
\* centre Y minus its min Y); the first successful render takes the baseline Y too.
C30_PivotPlacement ==
    [][Handled("update") =>
          LET reset == lastCmd'.args.shouldResetPosition
              first == ProducesMesh /\ host.isFirstRender
          IN  /\ (~reset /\ ~first) =>
                    /\ host'.pivotPos = host.pivotPos
                    /\ host'.pivotRot = host.pivotRot
              /\ (reset /\ ProducesMesh) =>
                    /\ host'.pivotRot = Zero3
                    /\ host'.pivotPos =
                          <<0, GeomHeight(The(host'.textMesh).geometry) \div 2, 0>>
              /\ first =>
                    host'.pivotPos[2] = GeomHeight(The(host'.textMesh).geometry) \div 2]_vars

\* A restored Host, its Pivot moved and turned, has rendered an update without reset.
C30_Witness ==
    /\ lastCmd.command = "update"
    /\ ~lastCmd.args.shouldResetPosition
    /\ calls = 3
    /\ host.textMesh # None
    /\ host.pivotPos = <<2, 5, 1>>
    /\ host.pivotRot = <<1, 0, 0>>

\* The step has moved or turned the camera
CameraChanged ==
    host'.cameraPos # host.cameraPos \/ host'.cameraRot # host.cameraRot

\* C31: an update with shouldFrame = false leaves the camera's position and rotation as
\* they were, whatever its other fields and whether or not it builds a mesh; an update
\* changes the camera only when shouldFrame is true and the mesh it built has a box of
\* non-zero extent.
C31_FramingOnlyOnRequest ==
    [][Handled("update") =>
          /\ ~lastCmd'.args.shouldFrame => ~CameraChanged
          /\ CameraChanged =>
                /\ lastCmd'.args.shouldFrame
                /\ host'.textMesh # None
                /\ The(host'.textMesh).geometry.text # Blank]_vars

\* An update without framing has built a mesh and left a restored camera where it was.
C31_Witness ==
    /\ lastCmd.command = "update"
    /\ ~lastCmd.args.shouldFrame
    /\ lastCmd.args.shouldResetPosition
    /\ host.textMesh # None
    /\ host.cameraPos = <<4, 2, 9>>
    /\ calls = 2

\* Where the wheel event of the step takes the camera when nothing holds it back
WheelTarget == AddScaled(host.cameraPos, <<0, 0, -1>>, -(lastCmd'.args.deltaY \div 50))

ReadyPosted == \E i \in 1..Len(toBridge) : toBridge[i].ev.command = "ready"

\* C33: whenever 'ready' has been posted, the Scene, Camera, Renderer, GridHelper and
\* Pivot exist; a Host whose scene construction raised an exception has posted no
\* 'ready'.
C33_ReadyOnlyWhenBuilt ==
    /\ ReadyPosted =>
          {"Scene", "Camera", "Renderer", "GridHelper", "Pivot"} \subseteq host.built
    /\ (lastCmd.command = "initViewer" /\ lastCmd.args.fault # 0) => ~ReadyPosted

\* C34: the normalizer maps a token r<N> and a bare number <N> to 0.<N>.0, returns a
\* token with a dot that does not start with 'r' as it is, and maps the empty and the
\* absent token to 0.0.0.
C34_NormalizeRule ==
    Len(normalized) >= 1 =>
        IF versionToken = None \/ versionToken = Some(EmptyString)
        THEN normalized[1] = VersionString(FALSE, <<0, 0, 0>>, "")
        ELSE LET t == The(versionToken) IN
             /\ (t.word = "" /\ Len(t.parts) = 1)
                   => normalized[1] = VersionString(FALSE, <<0, t.parts[1], 0>>, "")
             /\ (t.word = "" /\ ~t.r /\ Len(t.parts) >= 2) => normalized[1] = t

\* The bare token 128 has been normalized to 0.128.0.
C34_Witness ==
    /\ versionToken = Some(VersionString(FALSE, <<128>>, ""))
    /\ Len(normalized) = 1
    /\ normalized[1] = VersionString(FALSE, <<0, 128, 0>>, "")

\* The step is the Host's listener taking the message at the head of its queue
HostTakes(command) ==
    /\ hostUp
    /\ toHost # <<>>
    /\ Head(toHost).command = command
    /\ toHost' = Tail(toHost)
    /\ lastCmd' = Head(toHost)

\* C35: whenever the Host processes an update with fontHasChanged = false and a text
\* that is not empty, the font data it has cached is the Orchestrator's current font.
C35_FontCacheCoherent ==
    [][(/\ HostTakes("update")
        /\ ~Head(toHost).args.fontHasChanged
        /\ Head(toHost).args.text # "")
          => host.currentFontData = appFont]_vars

\* The text of the TextMesh, empty when there is none
RenderedText(h) == IF h.textMesh = None THEN "" ELSE The(h.textMesh).geometry.text

\* C36: once an update with a newer text has been issued after the restoreState and
\* every message has been delivered, the text the Host renders is that of the last
\* update, whatever the order of the update and the font data exchange of the restore.
C36_RestoreKeepsNewerText ==
    (hist # <<>> /\ toHost = <<>> /\ toBridge = <<>>)
        => RenderedText(host) = hist[Len(hist)]

\* C37: a BoundingBoxHelper exists exactly when bounding-box visibility is enabled
\* and a TextMesh exists.
C37_HelperIffVisibleMesh ==
    (host.boundingBoxHelper # None) <=> (host.isBoundingBoxVisible /\ host.textMesh # None)

\* The Host shows a BoundingBoxHelper around the text an update has just rendered.
C37_Witness ==
    /\ lastCmd.command = "update"
    /\ host.isBoundingBoxVisible
    /\ host.textMesh # None
    /\ host.boundingBoxHelper # None

\* C38: whenever the Bridge's readiness flag is true, the Host of the document now
\* installed is up and has posted 'ready', and it is that 'ready' the Bridge handled.
C38_ReadyFlagOfInstalledHost ==
    isViewerReady => (hostUp /\ curReadySeen)

\* C39: for a classic asset the branches leave no gap: every version from 0.74.0 up to
\* but not including 0.148.0 gives a viewer document, whatever its patch number, every
\* version below 0.74.0 gives the 'not supported' page, and the 'incompatibility' page
\* is given only for 0.148.0 and above.
C39_ClassicBranchesCover ==
    GeneratedFor(FALSE) =>
        LET d == The(iframeHtml)
            t == AssetTriple
        IN /\ (LexLeq(<<0, 74, 0>>, t) /\ LexLess(t, <<0, 148, 0>>)) => d.kind = "classic"
           /\ LexLess(t, <<0, 74, 0>>) =>
                 (d.kind = "info" /\ d.title[1] = "Version Not Supported")
           /\ (d.kind = "info" /\ d.title[1] = "Version Incompatibility") =>
                 LexLeq(<<0, 148, 0>>, t)

\* Toggle flags, material and dimensionality as the Host has them
HostToggles(h) ==
    [rotationEnabled |-> h.rotationEnabled, panEnabled |-> h.panEnabled,
     zoomEnabled |-> h.zoomEnabled, rotateObjectEnabled |-> h.rotateObjectEnabled,
     moveObjectEnabled |-> h.moveObjectEnabled,
     rotateCameraEnabled |-> h.rotateCameraEnabled, gridVisible |-> h.gridVisible,
     is3D |-> h.is3D,
     materialName |-> IF h.isWireframe THEN "Wireframe"
                      ELSE FindMaterialKey(h.currentMaterialConstructor)]

\* The same as the Orchestrator's viewerState has them
OrchestratorToggles(vs) ==
    [rotationEnabled |-> vs.rotationEnabled, panEnabled |-> vs.panEnabled,
     zoomEnabled |-> vs.zoomEnabled, rotateObjectEnabled |-> vs.rotateObjectEnabled,
     moveObjectEnabled |-> vs.moveObjectEnabled,
     rotateCameraEnabled |-> vs.rotateCameraEnabled, gridVisible |-> vs.gridVisible,
     is3D |-> vs.is3D, materialName |-> vs.currentMaterialName]

\* C40: when the viewer was reloaded while the wireframe mode was active and the mode
\* is left once the new Host is ready and restored, the Host's toggle flags, material
\* and dimensionality are those it had before the mode was entered, and they agree
\* with the viewerState the Orchestrator has restored on its side.
C40_WireframeSurvivesReload ==
    (hist = <<"on", "reload", "off">> /\ hostUp /\ toHost = <<>> /\ toBridge = <<>>)
        => /\ \A k \in DOMAIN HostToggles(host) : HostToggles(host)[k] = The(base)[k]
           /\ HostToggles(host) = OrchestratorToggles(viewerState)

=============================================================================
